---------------------------- MODULE Spec2Model ----------------------------
(***************************************************************************)
(* LB particle coupling of ESPResSo (lb_particle_coupling.cpp):            *)
(*   - the coupling configuration lb_particle_coupling of one process      *)
(*     (gamma, couple_to_md, optional RNG counter) and the functions that  *)
(*     read and write it;                                                  *)
(*   - the local-domain / halo geometry tests and the periodic image       *)
(*     enumeration;                                                        *)
(*   - the per-particle coupling kernel and the coupling pass of each rank.*)
(*                                                                         *)
(* Real-valued quantities are modelled in fixed point: lengths are integer *)
(* multiples of half a lattice spacing, forces and velocities are integers.*)
(* The 64-bit counter is modelled with CounterBits bits.                   *)
(***************************************************************************)
EXTENDS Integers, Sequences, FiniteSets, TLC

(***************************************************************************)
(* Bounds of the model.                                                    *)
(***************************************************************************)
\* width of the RNG counter in bits (uint64_t in the program)
CounterBits == 2
\* number of MPI ranks; the node grid is NRanks x 1 x 1
NRanks == 3
\* box length per axis, in units of half a lattice spacing
BoxL == 4
\* number of integration steps of a run
MaxSteps == 3

RECURSIVE Pow2(_)
Pow2(n) == IF n = 0 THEN 1 ELSE 2 * Pow2(n - 1)

CounterMod == Pow2(CounterBits)
CounterValues == 0 .. (CounterMod - 1)
Ranks == 0 .. (NRanks - 1)

\* enum class ActiveLB
ActiveLB == {"NONE", "WALBERLA_LB"}

\* values of gamma and kT that the set operations are called with
Gammas == {-1, 0, 1}
Temperatures == {0, 1}

VARIABLES
  this_node,            \* rank of the process whose configuration is modelled
  lattice_switch,       \* ActiveLB lattice_switch
  kT,                   \* temperature of the LB fluid, LB::get_kT()
  lb_particle_coupling, \* LB::ParticleCouplingConfig lb_particle_coupling
  aborted,              \* the process was terminated by a failed assertion
  ret,                  \* the last call: operation, argument, outcome
  prev,                 \* history: the call before the last
  seeded,               \* history: some set_rng_state call has succeeded
  expected_rng,         \* history: seed plus the number of thermalized steps
  last_toggle,          \* history: the last of activate / deactivate called
  warned,               \* history: a runtime warning was emitted earlier
  box_geo,              \* BoxGeometry box_geo: type and Lees-Edwards parameters
  query,                \* the last geometry query: arguments, result per rank
  couple_virtual,       \* whether virtual particles are coupled
  time_step,            \* MD time step
  particles,            \* per rank: the particles of cell_structure, real and ghost
  fluid,                \* per rank: the force densities added to the fluid
  force_adds,           \* history, per rank and particle: executions of p.force() +=
  pass,                 \* per rank: "idle", or how couple_particles ended
  fluid_u,              \* amplitude of the LB velocity field, 0: fluid at rest
  call,                 \* a call of a kernel function: arguments and outcome
  run,                  \* which run is executing: 1 the first, 2 the restarted
  run_seed,             \* per run: the counter value the run is seeded with
  run_start,            \* per run: the index of its first step, -1: no such run
  run_log,              \* history, per run and step: the counter and noise used
  rank_config,          \* per rank: lb_particle_coupling of the process of that rank
  node_grid             \* number of ranks the box is divided among: node_grid x 1 x 1

cfgvars == <<this_node, lattice_switch, kT, lb_particle_coupling, aborted,
             ret, prev, seeded, expected_rng, last_toggle, warned>>
geovars == <<box_geo, query>>
cplvars == <<couple_virtual, time_step, particles, fluid, force_adds, pass,
             fluid_u>>
callvars == <<call>>
runvars == <<run, run_seed, run_start, run_log>>
mpivars == <<rank_config, node_grid>>
vars == <<cfgvars, geovars, cplvars, callvars, runvars, mpivars>>

(***************************************************************************)
(* boost::optional<Utils::Counter<uint64_t>> rng_counter_coupling          *)
(***************************************************************************)
NoCounter == [initialized |-> FALSE, value |-> 0]
\* Utils::Counter<uint64_t>(counter)
Counter(c) == [initialized |-> TRUE, value |-> c % CounterMod]
\* Utils::Counter::increment on a uint64_t
Increment(rng) == [rng EXCEPT !.value = (rng.value + 1) % CounterMod]

\* LB::ParticleCouplingConfig{} as default constructed
DefaultConfig ==
  [gamma |-> 0, couple_to_md |-> FALSE, rng_counter_coupling |-> NoCounter]

\* what a call leaves behind for its caller
\*   kind: "ok" (returned), "value" (returned val / bval),
\*         "error" (std::runtime_error thrown, text in msg),
\*         "abort" (assertion failure, process terminated)
Ret(op, arg, kind, val, bval, msg, warning) ==
  [op |-> op, arg |-> arg, kind |-> kind, val |-> val, bval |-> bval,
   msg |-> msg, warning |-> warning]

Returned(op, arg) == Ret(op, arg, "ok", 0, FALSE, "", FALSE)
Thrown(op, arg, msg) == Ret(op, arg, "error", 0, FALSE, msg, FALSE)
Aborted(op, arg) == Ret(op, arg, "abort", 0, FALSE, "", FALSE)

NoCall == Returned("none", 0)

ConfigInit ==
  /\ this_node \in Ranks
  /\ lattice_switch = "NONE"
  /\ kT = 0
  /\ lb_particle_coupling = DefaultConfig
  /\ aborted = FALSE
  /\ ret = NoCall
  /\ prev = NoCall
  /\ seeded = FALSE
  /\ expected_rng = 0
  /\ last_toggle = "none"
  /\ warned = FALSE


(***************************************************************************)
(* The functions on the coupling configuration.                            *)
(***************************************************************************)
\* mutant of lb_lbcoupling_activate: flips the flag instead of setting it
activate_flipping ==
  /\ ~aborted
  /\ prev' = ret
  /\ UNCHANGED <<geovars, cplvars, callvars, runvars, mpivars>>
  /\ lb_particle_coupling' =
       [lb_particle_coupling EXCEPT !.couple_to_md = ~@]
  /\ ret' = Returned("activate", 0)
  /\ last_toggle' = "activate"
  /\ UNCHANGED <<this_node, lattice_switch, kT, aborted, seeded, expected_rng,
                 warned>>

\* void lb_lbcoupling_activate()
lb_lbcoupling_activate ==
  /\ ~aborted
  /\ prev' = ret
  /\ UNCHANGED <<geovars, cplvars, callvars, runvars, mpivars>>
  /\ lb_particle_coupling' = [lb_particle_coupling EXCEPT !.couple_to_md = TRUE]
  /\ ret' = Returned("activate", 0)
  /\ last_toggle' = "activate"
  /\ UNCHANGED <<this_node, lattice_switch, kT, aborted, seeded, expected_rng,
                 warned>>

\* mutant of DeactivateWarns: warns on every rank
DeactivateWarns_AnyRank ==
  /\ lattice_switch # "NONE"
  /\ lb_particle_coupling.gamma > 0

\* the condition under which lb_lbcoupling_deactivate emits its warning
DeactivateWarns ==
  /\ lattice_switch # "NONE"
  /\ this_node = 0
  /\ lb_particle_coupling.gamma > 0

\* mutant of lb_lbcoupling_deactivate: resets the whole configuration but
\* gamma
deactivate_resetting ==
  /\ ~aborted
  /\ prev' = ret
  /\ UNCHANGED <<geovars, cplvars, callvars, runvars, mpivars>>
  /\ lb_particle_coupling' =
       [DefaultConfig EXCEPT !.gamma = lb_particle_coupling.gamma]
  /\ ret' = [Returned("deactivate", 0) EXCEPT
               !.warning = (lattice_switch # "NONE" /\ this_node = 0
                            /\ lb_particle_coupling.gamma > 0)]
  /\ warned' = (warned \/ ret'.warning)
  /\ last_toggle' = "deactivate"
  /\ UNCHANGED <<this_node, lattice_switch, kT, aborted, seeded, expected_rng>>

\* void lb_lbcoupling_deactivate()
lb_lbcoupling_deactivate ==
  /\ ~aborted
  /\ prev' = ret
  /\ UNCHANGED <<geovars, cplvars, callvars, runvars, mpivars>>
  /\ lb_particle_coupling' = [lb_particle_coupling EXCEPT !.couple_to_md = FALSE]
  /\ ret' = [Returned("deactivate", 0) EXCEPT !.warning = DeactivateWarns]
  /\ warned' = (warned \/ DeactivateWarns)
  /\ last_toggle' = "deactivate"
  /\ UNCHANGED <<this_node, lattice_switch, kT, aborted, seeded, expected_rng>>

\* void lb_lbcoupling_set_gamma(double gamma)
lb_lbcoupling_set_gamma(gamma) ==
  /\ ~aborted
  /\ prev' = ret
  /\ UNCHANGED <<geovars, cplvars, callvars, runvars, mpivars>>
  /\ lb_particle_coupling' = [lb_particle_coupling EXCEPT !.gamma = gamma]
  /\ ret' = Returned("set_gamma", gamma)
  /\ UNCHANGED <<this_node, lattice_switch, kT, aborted, seeded, expected_rng,
                 last_toggle, warned>>

\* double lb_lbcoupling_get_gamma()
lb_lbcoupling_get_gamma ==
  /\ ~aborted
  /\ prev' = ret
  /\ UNCHANGED <<geovars, cplvars, callvars, runvars, mpivars>>
  /\ ret' = [Returned("get_gamma", 0) EXCEPT
               !.kind = "value", !.val = lb_particle_coupling.gamma]
  /\ UNCHANGED <<this_node, lattice_switch, kT, lb_particle_coupling, aborted,
                 seeded, expected_rng, last_toggle, warned>>

\* mutant of IsSeedRequired: does not look at lattice_switch
IsSeedRequired_AnySwitch ==
  ~lb_particle_coupling.rng_counter_coupling.initialized

\* the value lb_lbcoupling_is_seed_required() returns
IsSeedRequired ==
  IF lattice_switch = "WALBERLA_LB"
    THEN ~lb_particle_coupling.rng_counter_coupling.initialized
    ELSE FALSE

\* bool lb_lbcoupling_is_seed_required()
lb_lbcoupling_is_seed_required ==
  /\ ~aborted
  /\ prev' = ret
  /\ UNCHANGED <<geovars, cplvars, callvars, runvars, mpivars>>
  /\ ret' = [Returned("is_seed_required", 0) EXCEPT
               !.kind = "value", !.bval = IsSeedRequired]
  /\ UNCHANGED <<this_node, lattice_switch, kT, lb_particle_coupling, aborted,
                 seeded, expected_rng, last_toggle, warned>>

\* mutant of lb_coupling_get_rng_state_cpu: the value is returned through a
\* type of half the width
get_rng_state_cpu_truncated(op) ==
  LET rng == lb_particle_coupling.rng_counter_coupling IN
  /\ ret' = [Returned(op, 0) EXCEPT
               !.kind = "value", !.val = rng.value % (CounterMod \div 2)]
  /\ UNCHANGED aborted

\* uint64_t lb_coupling_get_rng_state_cpu(): rng_counter_coupling->value().
\* operator-> of an empty boost::optional is undefined: the assertion of a
\* checked build terminates the process, an unchecked build reads the unset
\* storage and returns whatever it holds.
lb_coupling_get_rng_state_cpu(op) ==
  LET rng == lb_particle_coupling.rng_counter_coupling IN
  IF rng.initialized
    THEN /\ ret' = [Returned(op, 0) EXCEPT !.kind = "value", !.val = rng.value]
         /\ UNCHANGED aborted
    ELSE \/ /\ ret' = Aborted(op, 0)
            /\ aborted' = TRUE
         \/ /\ \E garbage \in CounterValues :
                 ret' = [Returned(op, 0) EXCEPT !.kind = "value", !.val = garbage]
            /\ UNCHANGED aborted

\* uint64_t lb_lbcoupling_get_rng_state()
lb_lbcoupling_get_rng_state ==
  /\ ~aborted
  /\ prev' = ret
  /\ UNCHANGED <<geovars, cplvars, callvars, runvars, mpivars>>
  /\ IF lattice_switch = "WALBERLA_LB"
       THEN lb_coupling_get_rng_state_cpu("get_rng_state")
       ELSE /\ ret' = Thrown("get_rng_state", 0, "No LB active")
            /\ UNCHANGED aborted
  /\ UNCHANGED <<this_node, lattice_switch, kT, lb_particle_coupling, seeded,
                 expected_rng, last_toggle, warned>>

\* mutant of lb_lbcoupling_set_rng_state: seeds the counter one too far
set_rng_state_off_by_one(counter) ==
  /\ ~aborted
  /\ prev' = ret
  /\ UNCHANGED <<geovars, cplvars, callvars, runvars, mpivars>>
  /\ IF lattice_switch = "WALBERLA_LB"
       THEN /\ lb_particle_coupling' =
                 [lb_particle_coupling EXCEPT
                    !.rng_counter_coupling = Counter(counter + 1)]
            /\ ret' = Returned("set_rng_state", counter)
            /\ seeded' = TRUE
            /\ expected_rng' = counter
       ELSE /\ ret' = Thrown("set_rng_state", counter, "No LB active")
            /\ UNCHANGED <<lb_particle_coupling, seeded, expected_rng>>
  /\ UNCHANGED <<this_node, lattice_switch, kT, aborted, last_toggle, warned>>

\* mutant of lb_lbcoupling_set_rng_state: assigns before it checks
set_rng_state_assign_first(counter) ==
  /\ ~aborted
  /\ prev' = ret
  /\ UNCHANGED <<geovars, cplvars, callvars, runvars, mpivars>>
  /\ lb_particle_coupling' =
       [lb_particle_coupling EXCEPT !.rng_counter_coupling = Counter(counter)]
  /\ IF lattice_switch = "WALBERLA_LB"
       THEN /\ ret' = Returned("set_rng_state", counter)
            /\ seeded' = TRUE
            /\ expected_rng' = counter
       ELSE /\ ret' = Thrown("set_rng_state", counter, "No LB active")
            /\ UNCHANGED <<seeded, expected_rng>>
  /\ UNCHANGED <<this_node, lattice_switch, kT, aborted, last_toggle, warned>>

\* void lb_lbcoupling_set_rng_state(uint64_t counter)
lb_lbcoupling_set_rng_state(counter) ==
  /\ ~aborted
  /\ prev' = ret
  /\ UNCHANGED <<geovars, cplvars, callvars, runvars, mpivars>>
  /\ IF lattice_switch = "WALBERLA_LB"
       THEN /\ lb_particle_coupling' =
                 [lb_particle_coupling EXCEPT
                    !.rng_counter_coupling = Counter(counter)]
            /\ ret' = Returned("set_rng_state", counter)
            /\ seeded' = TRUE
            /\ expected_rng' = counter
       ELSE /\ ret' = Thrown("set_rng_state", counter, "No LB active")
            /\ UNCHANGED <<lb_particle_coupling, seeded, expected_rng>>
  /\ UNCHANGED <<this_node, lattice_switch, kT, aborted, last_toggle, warned>>

\* the thermalized step the RNG counter counts: lattice method active, kT > 0
ThermalizedStep == lattice_switch # "NONE" /\ kT > 0

\* mutant of lb_lbcoupling_propagate: increments whatever kT is
propagate_ignoring_kT ==
  /\ ~aborted
  /\ prev' = ret
  /\ UNCHANGED <<geovars, cplvars, callvars, runvars, mpivars>>
  /\ LET rng_counter == lb_particle_coupling.rng_counter_coupling IN
     IF lattice_switch = "WALBERLA_LB" /\ rng_counter.initialized
       THEN lb_particle_coupling' =
              [lb_particle_coupling EXCEPT
                 !.rng_counter_coupling = Increment(rng_counter)]
       ELSE UNCHANGED lb_particle_coupling
  /\ ret' = Returned("propagate", 0)
  /\ expected_rng' = IF ThermalizedStep /\ seeded
                       THEN (expected_rng + 1) % CounterMod
                       ELSE expected_rng
  /\ UNCHANGED <<this_node, lattice_switch, kT, aborted, seeded, last_toggle,
                 warned>>

\* mutant of lb_lbcoupling_propagate: the counter is incremented once for
\* the lattice method being active and once more for it being waLBerla
propagate_by_two ==
  /\ ~aborted
  /\ prev' = ret
  /\ UNCHANGED <<geovars, cplvars, callvars, runvars, mpivars>>
  /\ LET rng_counter == lb_particle_coupling.rng_counter_coupling IN
     IF ThermalizedStep /\ rng_counter.initialized
       THEN lb_particle_coupling' =
              [lb_particle_coupling EXCEPT
                 !.rng_counter_coupling = Increment(Increment(rng_counter))]
       ELSE UNCHANGED lb_particle_coupling
  /\ ret' = Returned("propagate", 0)
  /\ expected_rng' = IF ThermalizedStep /\ seeded
                       THEN (expected_rng + 1) % CounterMod
                       ELSE expected_rng
  /\ UNCHANGED <<this_node, lattice_switch, kT, aborted, seeded, last_toggle,
                 warned>>

\* void lb_lbcoupling_propagate(): rng_counter_coupling->increment().
\* On an empty optional the increment is undefined: a checked build
\* terminates, an unchecked build increments the unset storage, which leaves
\* the optional empty.
lb_lbcoupling_propagate ==
  /\ ~aborted
  /\ prev' = ret
  /\ UNCHANGED <<geovars, cplvars, callvars, runvars, mpivars>>
  /\ LET rng == lb_particle_coupling.rng_counter_coupling IN
     IF lattice_switch # "NONE" /\ kT > 0 /\ lattice_switch = "WALBERLA_LB"
       THEN IF rng.initialized
              THEN /\ lb_particle_coupling' =
                        [lb_particle_coupling EXCEPT
                           !.rng_counter_coupling = Increment(rng)]
                   /\ ret' = Returned("propagate", 0)
                   /\ UNCHANGED aborted
              ELSE \/ /\ ret' = Aborted("propagate", 0)
                      /\ aborted' = TRUE
                      /\ UNCHANGED lb_particle_coupling
                   \/ /\ ret' = Returned("propagate", 0)
                      /\ UNCHANGED <<lb_particle_coupling, aborted>>
       ELSE /\ ret' = Returned("propagate", 0)
            /\ UNCHANGED <<lb_particle_coupling, aborted>>
  /\ expected_rng' = IF ThermalizedStep /\ seeded
                       THEN (expected_rng + 1) % CounterMod
                       ELSE expected_rng
  /\ UNCHANGED <<this_node, lattice_switch, kT, seeded, last_toggle, warned>>

\* lattice_switch = ActiveLB::...; (activation / deactivation of the LB method)
set_lattice_switch(s) ==
  /\ ~aborted
  /\ prev' = ret
  /\ UNCHANGED <<geovars, cplvars, callvars, runvars, mpivars>>
  /\ lattice_switch' = s
  /\ ret' = Returned("set_lattice_switch", 0)
  /\ UNCHANGED <<this_node, kT, lb_particle_coupling, aborted, seeded,
                 expected_rng, last_toggle, warned>>

\* setup_lb(kT): (re)initialise the fluid with temperature kT
setup_lb(temperature) ==
  /\ ~aborted
  /\ prev' = ret
  /\ UNCHANGED <<geovars, cplvars, callvars, runvars, mpivars>>
  /\ kT' = temperature
  /\ ret' = Returned("setup_lb", temperature)
  /\ UNCHANGED <<this_node, lattice_switch, lb_particle_coupling, aborted,
                 seeded, expected_rng, last_toggle, warned>>


(***************************************************************************)
(* The configuration of the other processes and its broadcast.  Every      *)
(* process has its own lb_particle_coupling; the functions above write the *)
(* one of the process that calls them (this_node).                         *)
(***************************************************************************)
\* lb_particle_coupling as the process of rank r holds it
config_on(r) == IF r = this_node THEN lb_particle_coupling ELSE rank_config[r]

\* every process holds the configuration of this_node
Replicated == rank_config = [r \in Ranks |-> lb_particle_coupling]

\* the box is divided among all ranks
MpiIdle == Replicated /\ node_grid = NRanks

\* mutant of mpi_bcast_lb_particle_coupling_local: the counter is not sent
bcast_without_rng_counter(configs) ==
  [r \in Ranks |->
     [configs[0] EXCEPT
        !.rng_counter_coupling = configs[r].rng_counter_coupling]]

\* void mpi_bcast_lb_particle_coupling_local():
\*   boost::mpi::broadcast(comm_cart, lb_particle_coupling, 0)
\* executed by every rank; configs[r] is what rank r holds before
mpi_bcast_lb_particle_coupling_local(configs) ==
  [r \in Ranks |-> configs[0]]

\* void mpi_bcast_lb_particle_coupling():
\*   mpi_call_all(mpi_bcast_lb_particle_coupling_local)
mpi_bcast_lb_particle_coupling ==
  /\ ~aborted
  /\ prev' = ret
  /\ LET after == mpi_bcast_lb_particle_coupling_local(
                    [r \in Ranks |-> config_on(r)])
     IN  /\ lb_particle_coupling' = after[this_node]
         /\ rank_config' = after
  /\ ret' = Returned("mpi_bcast_lb_particle_coupling", 0)
  /\ UNCHANGED <<this_node, lattice_switch, kT, aborted, seeded, expected_rng,
                 last_toggle, warned>>
  /\ UNCHANGED <<node_grid, geovars, cplvars, callvars, runvars>>


(***************************************************************************)
(* Geometry.  A position is a triple of integers (units of agrid / 2);     *)
(* the node grid is NRanks x 1 x 1 and the local boxes tile the box.       *)
(***************************************************************************)
Axes == 1 .. 3

\* LB::get_agrid(), in units of half a lattice spacing
Agrid == 2

\* box_geo.length()
BoxLength == <<BoxL, BoxL, BoxL>>

\* local_geo.my_left() on rank r
my_left(r) == <<r * (BoxL \div node_grid), 0, 0>>

\* local_geo.my_right() on rank r
my_right(r) ==
  <<IF r = node_grid - 1 THEN BoxL ELSE (r + 1) * (BoxL \div node_grid),
    BoxL, BoxL>>

\* Utils::Vector comparison: every component
VecGeq(a, b) == \A i \in Axes : a[i] >= b[i]
VecLess(a, b) == \A i \in Axes : a[i] < b[i]

\* Utils::Vector3d::broadcast(x)
Broadcast(x) == <<x, x, x>>
VecAdd(a, b) == <<a[1] + b[1], a[2] + b[2], a[3] + b[3]>>
VecSub(a, b) == <<a[1] - b[1], a[2] - b[2], a[3] - b[3]>>
VecScale(k, a) == <<k * a[1], k * a[2], k * a[3]>>
\* Utils::hadamard_product
Hadamard(a, b) == <<a[1] * b[1], a[2] * b[2], a[3] * b[3]>>

\* mutant of in_local_domain: the upper corner belongs to the domain
in_local_domain_closed(r, pos, halo) ==
  LET halo_vec == Broadcast(halo)
      lower_corner == VecSub(my_left(r), halo_vec)
      upper_corner == VecAdd(my_right(r), halo_vec)
  IN  VecGeq(pos, lower_corner) /\ VecGeq(upper_corner, pos)

\* bool in_local_domain(pos, halo) on rank r
in_local_domain(r, pos, halo) ==
  LET halo_vec == Broadcast(halo)
      lower_corner == VecSub(my_left(r), halo_vec)
      upper_corner == VecAdd(my_right(r), halo_vec)
  IN  VecGeq(pos, lower_corner) /\ VecLess(pos, upper_corner)

\* bool in_local_halo(pos) on rank r
in_local_halo(r, pos) ==
  LET halo == Agrid \div 2
  IN  in_local_domain(r, pos, halo)

\* mutant of Shifts: the loops nested the other way round, k outermost
Shifts_k_outermost ==
  [n \in 1 .. 27 |->
     <<((n - 1) % 3) - 1, (((n - 1) \div 3) % 3) - 1, ((n - 1) \div 9) - 1>>]

\* the 27 shifts in the order of the loops: i outermost, then j, then k,
\* each running -1, 0, 1
Shifts ==
  [n \in 1 .. 27 |->
     <<((n - 1) \div 9) - 1, (((n - 1) \div 3) % 3) - 1, ((n - 1) % 3) - 1>>]

\* pos_shifted of one iteration of positions_in_halo
ShiftedPos(pos, shift) ==
  LET pos_shifted == VecAdd(pos, Hadamard(BoxLength, shift))
  IN  IF box_geo.type = "LEES_EDWARDS"
        THEN LET le == box_geo.lees_edwards_bc
                 normal_shift == VecSub(pos_shifted, pos)[le.shear_plane_normal]
                 d == le.shear_direction
             IN  IF normal_shift > 0
                   THEN [pos_shifted EXCEPT ![d] = @ + le.pos_offset]
                   ELSE IF normal_shift < 0
                          THEN [pos_shifted EXCEPT ![d] = @ - le.pos_offset]
                          ELSE pos_shifted
        ELSE pos_shifted

\* std::vector<Utils::Vector3d> positions_in_halo(pos, box) on rank r
positions_in_halo(r, pos) ==
  LET candidates == [n \in 1 .. 27 |-> ShiftedPos(pos, Shifts[n])]
  IN  SelectSeq(candidates, LAMBDA q : in_local_halo(r, q))

\* the box geometries of the model
Cuboid ==
  [type |-> "CUBOID",
   lees_edwards_bc |->
     [shear_plane_normal |-> 2, shear_direction |-> 1, pos_offset |-> 0]]
LeesEdwards(offset) ==
  [type |-> "LEES_EDWARDS",
   lees_edwards_bc |->
     [shear_plane_normal |-> 2, shear_direction |-> 1, pos_offset |-> offset]]
BoxGeometries == {Cuboid} \cup {LeesEdwards(o) : o \in {1}}

\* positions and halos the geometry functions are queried with
QueryCoords == (0 - Agrid) .. (BoxL + Agrid)
QueryPositions == {<<x, y, z>> : x \in QueryCoords, y \in QueryCoords,
                                 z \in QueryCoords}
QueryHalos == {0, Agrid \div 2, Agrid}

QueryOps == {"in_local_domain", "in_local_halo", "positions_in_halo"}

\* a query before it is evaluated: its arguments, no result yet
Queries ==
  [op : QueryOps, pos : QueryPositions, halo : QueryHalos, done : {FALSE},
   res : {[r \in Ranks |-> FALSE]}, images : {[r \in Ranks |-> <<>>]}]

NoQuery == [op |-> "none", pos |-> <<0, 0, 0>>, halo |-> 0, done |-> TRUE,
            res |-> [r \in Ranks |-> FALSE],
            images |-> [r \in Ranks |-> <<>>]]

\* in_local_domain(pos, halo) evaluated on every rank
query_in_local_domain ==
  /\ query.op = "in_local_domain" /\ ~query.done
  /\ query' = [query EXCEPT
                 !.done = TRUE,
                 !.res = [r \in Ranks |->
                            in_local_domain(r, query.pos, query.halo)]]
  /\ UNCHANGED <<box_geo, cfgvars, cplvars, callvars, runvars, mpivars>>

\* in_local_halo(pos) evaluated on every rank
query_in_local_halo ==
  /\ query.op = "in_local_halo" /\ ~query.done
  /\ query' = [query EXCEPT
                 !.done = TRUE,
                 !.res = [r \in Ranks |-> in_local_halo(r, query.pos)]]
  /\ UNCHANGED <<box_geo, cfgvars, cplvars, callvars, runvars, mpivars>>

\* positions_in_halo(pos, box_geo) evaluated on every rank
query_positions_in_halo ==
  /\ query.op = "positions_in_halo" /\ ~query.done
  /\ query' = [query EXCEPT
                 !.done = TRUE,
                 !.images = [r \in Ranks |-> positions_in_halo(r, query.pos)]]
  /\ UNCHANGED <<box_geo, cfgvars, cplvars, callvars, runvars, mpivars>>

(***************************************************************************)
(* Particles, fluid and the coupling kernel.  Velocities and forces are    *)
(* the components along the director of the particle, which is the z axis. *)
(* The build has ENGINE and no LB_ELECTROHYDRODYNAMICS.                    *)
(***************************************************************************)
\* p.calc_director()
Director == <<0, 0, 1>>

\* LB::get_lattice_speed()
LatticeSpeed == 1

NotSwimming ==
  [swimming |-> FALSE, v_swim |-> 0, f_swim |-> 0, dipole_length |-> 0,
   push_pull |-> 0]
\* a puller with the parameters of the swimmer_force test, lengths in agrid / 2
Puller ==
  [swimming |-> TRUE, v_swim |-> 1, f_swim |-> 2, dipole_length |-> 3 * Agrid,
   push_pull |-> 1]

\* lb_lbinterpolation_get_interpolated_velocity(pos): a field with the
\* period of the box
FluidVelocity(pos) ==
  fluid_u * (((pos[1] % BoxL) + (pos[2] % BoxL) + (pos[3] % BoxL)) % 2)

\* Random::noise_uniform<RNGSalt::PARTICLES>(counter, key, pid): a function of
\* its three arguments
noise_uniform(counter, key, pid) == ((7 * counter + 3 * key + 6 * pid + 1) % 5) - 2

\* ParticleCoupling::m_thermalized and m_noise, set by the constructor
m_thermalized == kT # 0
m_noise == kT

\* mutant of add_md_force: the force density at pos is set, not added to
add_md_force_overwriting(fl, pos, force, ts) ==
  LET delta_j == (0 - (ts \div LatticeSpeed)) * force
  IN  Append(SelectSeq(fl, LAMBDA d : d.pos # pos),
             [pos |-> pos, delta_j |-> delta_j])

\* void add_md_force(pos, force, time_step): the fluid after the call.
\* lb_lbinterpolation_add_force_density accumulates, so the fluid is kept
\* as the list of the deposits made
add_md_force(fl, pos, force, ts) ==
  LET delta_j == (0 - (ts \div LatticeSpeed)) * force
  IN  Append(fl, [pos |-> pos, delta_j |-> delta_j])

\* Utils::Vector3d lb_particle_coupling_drift_vel_offset(p)
lb_particle_coupling_drift_vel_offset(p) ==
  IF p.swimming.swimming THEN p.swimming.v_swim ELSE 0

\* double lb_lbcoupling_get_gamma() as a value
GetGamma == lb_particle_coupling.gamma

\* mutant of lb_drag_force: the velocity offset is left out of the drift
lb_drag_force_without_offset(p, shifted_pos, vel_offset) ==
  LET interpolated_u == FluidVelocity(shifted_pos) * LatticeSpeed
  IN  (0 - GetGamma) * (p.v - interpolated_u)

\* Utils::Vector3d lb_drag_force(p, shifted_pos, vel_offset)
lb_drag_force(p, shifted_pos, vel_offset) ==
  LET interpolated_u == FluidVelocity(shifted_pos) * LatticeSpeed
      v_drift == interpolated_u + vel_offset
  IN  (0 - GetGamma) * (p.v - v_drift)

RECURSIVE DepositAll(_, _, _, _)
\* the loop of add_swimmer_force: add_md_force at every position of the list
DepositAll(fl, positions, force, ts) ==
  IF positions = <<>>
    THEN fl
    ELSE DepositAll(add_md_force(fl, Head(positions), force, ts),
                    Tail(positions), force, ts)

\* mutant of add_swimmer_force: the force is put at the particle, not at
\* the source position
add_swimmer_force_at_particle(r, fl, p, ts) ==
  IF p.swimming.swimming
    THEN DepositAll(fl, positions_in_halo(r, p.pos), p.swimming.f_swim, ts)
    ELSE fl

\* p.calc_director(): the unit vector the particle points along
calc_director(p) == p.director

\* void add_swimmer_force(p, time_step) on rank r: the fluid after the call
add_swimmer_force(r, fl, p, ts) ==
  IF p.swimming.swimming
    THEN LET magnitude == p.swimming.dipole_length
             direction == p.swimming.push_pull
             source_position ==
               VecAdd(p.pos, VecScale(direction * magnitude, calc_director(p)))
             force == p.swimming.f_swim
         IN  DepositAll(fl, positions_in_halo(r, source_position), force, ts)
    ELSE fl

\* mutant of get_noise_term: the counter is checked before m_thermalized
get_noise_term_checking_first(pid) ==
  LET rng_counter == lb_particle_coupling.rng_counter_coupling IN
  IF ~rng_counter.initialized
    THEN [error |-> TRUE, value |-> 0]
    ELSE IF ~m_thermalized
           THEN [error |-> FALSE, value |-> 0]
           ELSE [error |-> FALSE,
                 value |-> m_noise * noise_uniform(rng_counter.value, 0, pid)]

\* mutant of get_noise_term: the counter is read without the check
get_noise_term_unchecked(pid) ==
  LET rng_counter == lb_particle_coupling.rng_counter_coupling IN
  IF ~m_thermalized
    THEN [error |-> FALSE, value |-> 0]
    ELSE [error |-> FALSE,
          value |-> m_noise * noise_uniform(rng_counter.value, 0, pid)]

\* Utils::Vector3d ParticleCoupling::get_noise_term(pid): the value, or the
\* std::runtime_error of an uninitialized counter
get_noise_term(pid) ==
  LET rng_counter == lb_particle_coupling.rng_counter_coupling IN
  IF ~m_thermalized
    THEN [error |-> FALSE, value |-> 0]
    ELSE IF ~rng_counter.initialized
           THEN [error |-> TRUE, value |-> 0]
           ELSE [error |-> FALSE,
                 value |-> m_noise * noise_uniform(rng_counter.value, 0, pid)]


(***************************************************************************)
(* The coupling pass of one rank.  Its state st while it runs:             *)
(*   particles, fluid, force_adds: those of the rank;                      *)
(*   m_coupled_ghosts: the ids CouplingBookkeeping has recorded;           *)
(*   error: the std::runtime_error of get_noise_term left the pass.        *)
(***************************************************************************)
RECURSIVE CoupleImages_domain_only(_, _, _, _, _, _)
\* mutant of CoupleImages: the fluid force is deposited under the same
\* condition as the particle force, at the images in the local domain
CoupleImages_domain_only(r, st, i, images, coupling_force, ts) ==
  IF images = <<>>
    THEN st
    ELSE LET pos == Head(images)
             added ==
               IF in_local_domain(r, pos, 0)
                 THEN [st EXCEPT
                         !.particles[i].force = @ + coupling_force,
                         !.force_adds[i] = @ + 1,
                         !.fluid = add_md_force(@, pos, coupling_force, ts)]
                 ELSE st
         IN  CoupleImages_domain_only(r, added, i, Tail(images),
                                      coupling_force, ts)

RECURSIVE CoupleImages_halo_test(_, _, _, _, _, _)
\* mutant of CoupleImages: p.force() += is guarded by in_local_halo(pos)
CoupleImages_halo_test(r, st, i, images, coupling_force, ts) ==
  IF images = <<>>
    THEN st
    ELSE LET pos == Head(images)
             added ==
               IF in_local_halo(r, pos)
                 THEN [st EXCEPT
                         !.particles[i].force = @ + coupling_force,
                         !.force_adds[i] = @ + 1]
                 ELSE st
             deposited ==
               [added EXCEPT
                  !.fluid = add_md_force(@, pos, coupling_force, ts)]
         IN  CoupleImages_halo_test(r, deposited, i, Tail(images),
                                    coupling_force, ts)

RECURSIVE CoupleImages_assigning(_, _, _, _, _, _)
\* mutant of CoupleImages: p.force() = coupling_force instead of +=
CoupleImages_assigning(r, st, i, images, coupling_force, ts) ==
  IF images = <<>>
    THEN st
    ELSE LET pos == Head(images)
             added ==
               IF in_local_domain(r, pos, 0)
                 THEN [st EXCEPT
                         !.particles[i].force = coupling_force,
                         !.force_adds[i] = @ + 1]
                 ELSE st
             deposited ==
               [added EXCEPT
                  !.fluid = add_md_force(@, pos, coupling_force, ts)]
         IN  CoupleImages_assigning(r, deposited, i, Tail(images),
                                    coupling_force, ts)

RECURSIVE CoupleImages(_, _, _, _, _, _)
\* the second loop of kernel over the images of p (particle i of st)
CoupleImages(r, st, i, images, coupling_force, ts) ==
  IF images = <<>>
    THEN st
    ELSE LET pos == Head(images)
             added ==
               IF in_local_domain(r, pos, 0)
                 THEN [st EXCEPT
                         !.particles[i].force = @ + coupling_force,
                         !.force_adds[i] = @ + 1]
                 ELSE st
             deposited ==
               [added EXCEPT
                  !.fluid = add_md_force(@, pos, coupling_force, ts)]
         IN  CoupleImages(r, deposited, i, Tail(images), coupling_force, ts)

\* mutant of kernel: the test for a virtual particle guards the coupling
\* force only, the swimmer force is deposited all the same
kernel_virtual_swims(r, st, i, cv, ts) ==
  LET p == st.particles[i] IN
  IF p.virtual /\ ~cv
    THEN [st EXCEPT !.fluid = add_swimmer_force(r, @, p, ts)]
    ELSE LET images == positions_in_halo(r, p.pos)
             in_halo == SelectSeq(images, LAMBDA q : in_local_halo(r, q))
             vel_offset == lb_particle_coupling_drift_vel_offset(p)
             random_force == get_noise_term(p.id)
         IN  IF in_halo # <<>> /\ random_force.error
               THEN [st EXCEPT !.error = TRUE]
               ELSE LET coupling_force ==
                          IF in_halo # <<>>
                            THEN lb_drag_force(p, Head(in_halo), vel_offset)
                                 + random_force.value
                            ELSE 0
                        coupled ==
                          CoupleImages(r, st, i, images, coupling_force, ts)
                    IN  [coupled EXCEPT
                           !.fluid = add_swimmer_force(r, @, p, ts)]

\* mutant of kernel: the first loop has no break, the coupling force is
\* the one of the last image in the halo
kernel_last_image(r, st, i, cv, ts) ==
  LET p == st.particles[i] IN
  IF p.virtual /\ ~cv
    THEN st
    ELSE LET images == positions_in_halo(r, p.pos)
             in_halo == SelectSeq(images, LAMBDA q : in_local_halo(r, q))
             vel_offset == lb_particle_coupling_drift_vel_offset(p)
             random_force == get_noise_term(p.id)
         IN  IF in_halo # <<>> /\ random_force.error
               THEN [st EXCEPT !.error = TRUE]
               ELSE LET coupling_force ==
                          IF in_halo # <<>>
                            THEN lb_drag_force(p, in_halo[Len(in_halo)],
                                               vel_offset)
                                 + random_force.value
                            ELSE 0
                        coupled ==
                          CoupleImages(r, st, i, images, coupling_force, ts)
                    IN  [coupled EXCEPT
                           !.fluid = add_swimmer_force(r, @, p, ts)]

\* mutant of kernel: the noise term is requested before the images are
\* looked at, also for a particle that has no image in the halo
kernel_noise_first(r, st, i, cv, ts) ==
  LET p == st.particles[i] IN
  IF p.virtual /\ ~cv
    THEN st
    ELSE LET images == positions_in_halo(r, p.pos)
             in_halo == SelectSeq(images, LAMBDA q : in_local_halo(r, q))
             vel_offset == lb_particle_coupling_drift_vel_offset(p)
             random_force == get_noise_term(p.id)
         IN  IF random_force.error
               THEN [st EXCEPT !.error = TRUE]
               ELSE LET coupling_force ==
                          IF in_halo # <<>>
                            THEN lb_drag_force(p, Head(in_halo), vel_offset)
                                 + random_force.value
                            ELSE 0
                        coupled ==
                          CoupleImages(r, st, i, images, coupling_force, ts)
                    IN  [coupled EXCEPT
                           !.fluid = add_swimmer_force(r, @, p, ts)]

\* void ParticleCoupling::kernel(Particle &p) on rank r, p particle i of st
kernel(r, st, i, cv, ts) ==
  LET p == st.particles[i] IN
  IF p.virtual /\ ~cv
    THEN st
    ELSE LET images == positions_in_halo(r, p.pos)
             in_halo == SelectSeq(images, LAMBDA q : in_local_halo(r, q))
             vel_offset == lb_particle_coupling_drift_vel_offset(p)
             random_force == get_noise_term(p.id)
         IN  IF in_halo # <<>> /\ random_force.error
               THEN [st EXCEPT !.error = TRUE]
               ELSE LET coupling_force ==
                          IF in_halo # <<>>
                            THEN lb_drag_force(p, Head(in_halo), vel_offset)
                                 + random_force.value
                            ELSE 0
                        coupled ==
                          CoupleImages(r, st, i, images, coupling_force, ts)
                    IN  [coupled EXCEPT
                           !.fluid = add_swimmer_force(r, @, p, ts)]

\* cell_structure.get_local_particle(id): the real particle with this id if
\* the rank has one, otherwise a ghost with this id
get_local_particle(parts, id) ==
  LET real == {i \in 1 .. Len(parts) : parts[i].id = id /\ ~parts[i].ghost}
      any == {i \in 1 .. Len(parts) : parts[i].id = id}
  IN  IF real # {}
        THEN parts[CHOOSE i \in real : TRUE]
        ELSE parts[CHOOSE i \in any : \A j \in any : i <= j]

\* mutant of is_ghost_for_local_particle: p itself is looked at, not the
\* particle the cell structure returns for its id
is_ghost_for_local_particle_self(parts, p) ==
  ~p.ghost

\* mutant of is_ghost_for_local_particle: the negation is lost
is_ghost_for_local_particle_inverted(parts, p) ==
  get_local_particle(parts, p.id).ghost

\* bool CouplingBookkeeping::is_ghost_for_local_particle(p)
is_ghost_for_local_particle(parts, p) ==
  ~get_local_particle(parts, p.id).ghost

\* bool CouplingBookkeeping::should_be_coupled(p): a real particle always; a
\* ghost unless the rank holds the real particle or has coupled a ghost of it
should_be_coupled(st, p) ==
  IF ~p.ghost
    THEN TRUE
    ELSE ~(p.id \in st.m_coupled_ghosts
           \/ is_ghost_for_local_particle(st.particles, p))

\* should_be_coupled records the ghost it lets through
RecordCoupled(st, p) ==
  IF p.ghost
    THEN [st EXCEPT !.m_coupled_ghosts = @ \cup {p.id}]
    ELSE st

RECURSIVE CoupleRange_every_copy(_, _, _, _, _)
\* mutant of CoupleRange: the kernel runs for every particle of the ranges,
\* bookkeeping.should_be_coupled(p) is not asked
CoupleRange_every_copy(r, st, order, cv, ts) ==
  IF order = <<>> \/ st.error
    THEN st
    ELSE LET i == Head(order)
             next == kernel(r, st, i, cv, ts)
         IN  CoupleRange_every_copy(r, next, Tail(order), cv, ts)

RECURSIVE CoupleRange(_, _, _, _, _)
\* the loop of couple_particles over the particles with the indices in order
CoupleRange(r, st, order, cv, ts) ==
  IF order = <<>> \/ st.error
    THEN st
    ELSE LET i == Head(order)
             p == st.particles[i]
             next == IF should_be_coupled(st, p)
                       THEN kernel(r, RecordCoupled(st, p), i, cv, ts)
                       ELSE st
         IN  CoupleRange(r, next, Tail(order), cv, ts)

RECURSIVE IndicesWhere(_, _, _)
\* the indices from i on of the particles that are ghosts (or are not)
IndicesWhere(parts, i, ghost) ==
  IF i > Len(parts)
    THEN <<>>
    ELSE IF parts[i].ghost = ghost
           THEN <<i>> \o IndicesWhere(parts, i + 1, ghost)
           ELSE IndicesWhere(parts, i + 1, ghost)

\* cell_structure.local_particles() and ghost_particles() as index lists
real_particles(parts) == IndicesWhere(parts, 1, FALSE)
ghost_particles(parts) == IndicesWhere(parts, 1, TRUE)

\* mutant of couple_particles: couple_to_md is not looked at
couple_particles_ignoring_couple_to_md(r) ==
  /\ pass[r] = "idle"
  /\ LET st0 == [particles |-> particles[r], fluid |-> fluid[r],
                 force_adds |-> force_adds[r], m_coupled_ghosts |-> {},
                 error |-> FALSE]
         order == real_particles(particles[r]) \o ghost_particles(particles[r])
         st == IF lattice_switch = "WALBERLA_LB"
                 THEN CoupleRange(r, st0, order, couple_virtual, time_step)
                 ELSE st0
     IN  /\ particles' = [particles EXCEPT ![r] = st.particles]
         /\ fluid' = [fluid EXCEPT ![r] = st.fluid]
         /\ force_adds' = [force_adds EXCEPT ![r] = st.force_adds]
         /\ pass' = [pass EXCEPT ![r] = IF st.error THEN "error" ELSE "done"]
  /\ UNCHANGED <<couple_virtual, time_step, fluid_u, cfgvars, geovars,
                 callvars, runvars, mpivars>>

\* void couple_particles(couple_virtual, real_particles, ghost_particles,
\*                       time_step) on rank r
couple_particles(r) ==
  /\ pass[r] = "idle"
  /\ LET st0 == [particles |-> particles[r], fluid |-> fluid[r],
                 force_adds |-> force_adds[r], m_coupled_ghosts |-> {},
                 error |-> FALSE]
         order == real_particles(particles[r]) \o ghost_particles(particles[r])
         st == IF lattice_switch = "WALBERLA_LB"
                    /\ lb_particle_coupling.couple_to_md
                 THEN CoupleRange(r, st0, order, couple_virtual, time_step)
                 ELSE st0
     IN  /\ particles' = [particles EXCEPT ![r] = st.particles]
         /\ fluid' = [fluid EXCEPT ![r] = st.fluid]
         /\ force_adds' = [force_adds EXCEPT ![r] = st.force_adds]
         /\ pass' = [pass EXCEPT ![r] = IF st.error THEN "error" ELSE "done"]
  /\ UNCHANGED <<couple_virtual, time_step, fluid_u, cfgvars, geovars,
                 callvars, runvars, mpivars>>


(***************************************************************************)
(* The particle of the coupling pass and its copies.  The ghost exchange   *)
(* gives a rank a ghost copy for every periodic image of the particle that *)
(* lies in the ghost layer of the rank, the real particle itself excepted. *)
(***************************************************************************)
\* thickness of the ghost layer of the cell system
GhostRange == Agrid

\* the rank whose local domain holds pos
Owner(pos) == CHOOSE r \in Ranks : in_local_domain(r, pos, 0)

GhostCopies(r, p) ==
  LET copy(n) == [p EXCEPT !.pos = ShiftedPos(p.pos, Shifts[n]),
                           !.ghost = TRUE, !.force = 0]
      candidates == [n \in 1 .. 27 |-> copy(n)]
  IN  SelectSeq(candidates,
                LAMBDA g : /\ in_local_domain(r, g.pos, GhostRange)
                           /\ ~(r = Owner(p.pos) /\ g.pos = p.pos))

LocalParticles(r, p) ==
  (IF r = Owner(p.pos) THEN <<p>> ELSE <<>>) \o GhostCopies(r, p)

BoxCoords == 0 .. (BoxL - 1)
BoxPositions == {<<x, y, z>> : x \in BoxCoords, y \in BoxCoords, z \in BoxCoords}

\* the force a copy holds when the pass begins: the ghost exchange resets
\* the force of a ghost
ForceBefore(ghost) == IF ghost THEN 0 ELSE 1

Particles ==
  [id : {1}, pos : BoxPositions, v : {2}, force : {ForceBefore(FALSE)},
   ghost : {FALSE},
   virtual : BOOLEAN, swimming : {NotSwimming, Puller}, director : {Director}]

NoParticles == [r \in Ranks |-> <<>>]

CoupleIdle ==
  /\ couple_virtual = FALSE
  /\ time_step = 1
  /\ particles = NoParticles
  /\ fluid = NoParticles
  /\ force_adds = NoParticles
  /\ pass = [r \in Ranks |-> "idle"]
  /\ fluid_u = 0

\* the integrator begins the next step on rank r: the forces are
\* initialised again, the fluid has consumed the force densities
begin_step(r) ==
  /\ ~aborted
  /\ pass[r] = "done"
  /\ particles' = [particles EXCEPT ![r] =
       [i \in 1 .. Len(particles[r]) |->
          [particles[r][i] EXCEPT !.force = ForceBefore(particles[r][i].ghost)]]]
  /\ fluid' = [fluid EXCEPT ![r] = <<>>]
  /\ force_adds' = [force_adds EXCEPT ![r] =
       [i \in 1 .. Len(particles[r]) |-> 0]]
  /\ pass' = [pass EXCEPT ![r] = "idle"]
  /\ UNCHANGED <<couple_virtual, time_step, fluid_u, cfgvars, geovars,
                 callvars, runvars, mpivars>>


(***************************************************************************)
(* Calls of the kernel functions on this_node, one call per behaviour: the *)
(* arguments are drawn when the behaviour begins.                          *)
(***************************************************************************)
\* particle ids
Pids == {1, 2}

\* the positions the kernel functions are called with
CallCoords == {0, BoxL - 1}
CallPositions == {<<x, y, z>> : x \in CallCoords, y \in CallCoords,
                                z \in CallCoords}

DefaultParticle ==
  [id |-> 1, pos |-> <<0, 0, 0>>, v |-> 0, force |-> 0, ghost |-> FALSE,
   virtual |-> FALSE, swimming |-> NotSwimming, director |-> Director]

\* a call before it is made: its arguments, no outcome yet
NewCall(op, p, pos, vel_offset, pid, deposits) ==
  [op |-> op, p |-> p, pos |-> pos, vel_offset |-> vel_offset, pid |-> pid,
   deposits |-> deposits, done |-> FALSE, value |-> 0, error |-> FALSE,
   fluid |-> <<>>, applied |-> <<>>, p_after |-> p, bval |-> FALSE,
   coupled |-> FALSE]

NoKernelCall ==
  [NewCall("none", DefaultParticle, <<0, 0, 0>>, 0, 0, <<>>) EXCEPT
     !.done = TRUE]

DragCalls ==
  {NewCall("lb_drag_force", [DefaultParticle EXCEPT !.v = v], pos, offset,
           0, <<>>) :
     v \in {0 - 1, 2}, pos \in CallPositions, offset \in {0, 1}}

NoiseCalls ==
  {NewCall("get_noise_term", DefaultParticle, <<0, 0, 0>>, 0, pid, <<>>) :
     pid \in Pids}

SwimmerCalls ==
  {NewCall("add_swimmer_force",
           [DefaultParticle EXCEPT !.pos = pos, !.swimming = sw, !.force = 1],
           <<0, 0, 0>>, 0, 0, <<>>) :
     pos \in CallPositions, sw \in {NotSwimming, Puller}}

\* the forces and positions add_md_force is called with
DepositForces == {0 - 2, 1, 2}
DepositPositions == {<<0, 0, 0>>, <<1, 0, 0>>}
Deposits == [pos : DepositPositions, force : DepositForces]

DepositCalls ==
  {NewCall("add_md_force", DefaultParticle, <<0, 0, 0>>, 0, 0, <<d1, d2>>) :
     d1 \in Deposits, d2 \in Deposits}

\* the particle whose copies the bookkeeping is asked about
BookPositions == {<<x, 0, 0>> : x \in BoxCoords}
BookParticle(pos) ==
  [DefaultParticle EXCEPT !.pos = pos, !.force = ForceBefore(FALSE)]

\* is_ghost_for_local_particle(p) for a copy p of the particle at pos
BookCalls ==
  UNION {{NewCall("is_ghost_for_local_particle",
                  LocalParticles(r, BookParticle(pos))[i], pos, 0, 0, <<>>) :
            i \in 1 .. Len(LocalParticles(r, BookParticle(pos)))} :
         r \in Ranks, pos \in BookPositions}

\* kernel(p) for a particle in a corner of the box
KernelOpCalls ==
  {NewCall("kernel",
           [DefaultParticle EXCEPT !.pos = pos, !.v = 2, !.force = 1,
                                   !.virtual = vt, !.swimming = sw],
           <<0, 0, 0>>, 0, 0, <<>>) :
     pos \in CallPositions, vt \in BOOLEAN, sw \in {NotSwimming, Puller}}

KernelCalls ==
  DragCalls \cup NoiseCalls \cup SwimmerCalls \cup DepositCalls \cup BookCalls
    \cup KernelOpCalls

CallIdle == call = NoKernelCall

\* lb_drag_force(p, shifted_pos, vel_offset)
call_lb_drag_force ==
  /\ call.op = "lb_drag_force" /\ ~call.done
  /\ call' = [call EXCEPT
                !.done = TRUE,
                !.value = lb_drag_force(call.p, call.pos, call.vel_offset)]
  /\ UNCHANGED <<cfgvars, geovars, cplvars, runvars, mpivars>>

\* coupling.get_noise_term(pid): a const member function
call_get_noise_term ==
  /\ call.op = "get_noise_term" /\ ~call.done
  /\ LET noise == get_noise_term(call.pid)
     IN  call' = [call EXCEPT !.done = TRUE, !.error = noise.error,
                              !.value = noise.value]
  /\ UNCHANGED <<cfgvars, geovars, cplvars, runvars, mpivars>>

\* add_swimmer_force(p, time_step): p is passed by reference to const
call_add_swimmer_force ==
  /\ call.op = "add_swimmer_force" /\ ~call.done
  /\ call' = [call EXCEPT
                !.done = TRUE,
                !.fluid = add_swimmer_force(this_node, @, call.p, time_step),
                !.p_after = call.p]
  /\ UNCHANGED <<cfgvars, geovars, cplvars, runvars, mpivars>>

\* add_md_force(pos, force, time_step) with the next of the deposits
call_add_md_force ==
  /\ call.op = "add_md_force" /\ ~call.done
  /\ LET d == Head(call.deposits)
     IN  call' = [call EXCEPT
                    !.deposits = Tail(@),
                    !.applied = Append(@, d),
                    !.fluid = add_md_force(@, d.pos, d.force, time_step),
                    !.done = (Tail(call.deposits) = <<>>)]
  /\ UNCHANGED <<cfgvars, geovars, cplvars, runvars, mpivars>>

\* bookkeeping.is_ghost_for_local_particle(p) and, with nothing recorded
\* yet, bookkeeping.should_be_coupled(p), for a copy p this_node holds
call_is_ghost_for_local_particle ==
  /\ call.op = "is_ghost_for_local_particle" /\ ~call.done
  /\ LET st == [particles |-> particles[this_node], m_coupled_ghosts |-> {}]
     IN  call' = [call EXCEPT
                    !.done = TRUE,
                    !.bval = is_ghost_for_local_particle(st.particles, call.p),
                    !.coupled = should_be_coupled(st, call.p)]
  /\ UNCHANGED <<cfgvars, geovars, cplvars, runvars, mpivars>>

\* coupling.kernel(p) on this_node, the fluid without force densities
call_kernel ==
  /\ call.op = "kernel" /\ ~call.done
  /\ LET st0 == [particles |-> <<call.p>>, fluid |-> <<>>,
                 force_adds |-> <<0>>, m_coupled_ghosts |-> {},
                 error |-> FALSE]
         st == kernel(this_node, st0, 1, couple_virtual, time_step)
     IN  call' = [call EXCEPT
                    !.done = TRUE,
                    !.error = st.error,
                    !.fluid = st.fluid,
                    !.p_after = st.particles[1],
                    !.value = st.force_adds[1]]
  /\ UNCHANGED <<cfgvars, geovars, cplvars, runvars, mpivars>>

\* lb_lbfluid_get_force_to_be_applied(pos): the force density at pos
RECURSIVE ForceDensity(_, _)
ForceDensity(fl, pos) ==
  IF fl = <<>>
    THEN 0
    ELSE (IF Head(fl).pos = pos THEN Head(fl).delta_j ELSE 0)
         + ForceDensity(Tail(fl), pos)

(***************************************************************************)
(* The integration loop of a run, and its restart from a checkpoint.       *)
(***************************************************************************)
\* A run seeds the counter and then repeats: the coupling pass, propagate.
\* The first run may write the counter to a checkpoint between two steps;
\* the restarted run is a new process that seeds the counter from it.
RunIdle ==
  /\ run = 1
  /\ run_seed = <<0, 0>>
  /\ run_start = <<0, 0 - 1>>
  /\ run_log = <<(<<>>), (<<>>)>>

\* the run is between two steps
BetweenSteps == ret.op \in {"set_rng_state", "propagate", "get_rng_state"}

\* lb_lbcoupling_set_rng_state(seed) at the start of the run
run_set_rng_state ==
  /\ ret.op = "none"
  /\ lb_lbcoupling_set_rng_state(run_seed[run])

\* the coupling pass of a step: get_noise_term(p.id()) for the particles,
\* for each of them a second time
run_couple ==
  /\ ~aborted
  /\ BetweenSteps
  /\ run_start[run] + Len(run_log[run]) < MaxSteps
  /\ run_log' =
       [run_log EXCEPT
          ![run] = Append(@,
                     [counter |-> lb_particle_coupling.rng_counter_coupling.value,
                      noise |-> [pid \in Pids |-> get_noise_term(pid)],
                      again |-> [pid \in Pids |-> get_noise_term(pid)]])]
  /\ prev' = ret
  /\ ret' = Returned("couple_particles", 0)
  /\ UNCHANGED <<this_node, lattice_switch, kT, lb_particle_coupling, aborted,
                 seeded, expected_rng, last_toggle, warned>>
  /\ UNCHANGED <<run, run_seed, run_start, geovars, cplvars, callvars, mpivars>>

\* lb_lbcoupling_propagate() at the end of the step
run_propagate ==
  /\ ret.op = "couple_particles"
  /\ lb_lbcoupling_propagate

\* lb_lbcoupling_get_rng_state() of the first run, for the checkpoint
run_get_rng_state ==
  /\ run = 1 /\ run_start[2] < 0
  /\ ret.op \in {"set_rng_state", "propagate"}
  /\ lb_lbcoupling_get_rng_state

\* the value get_rng_state returned is written to the checkpoint
write_checkpoint ==
  /\ run = 1 /\ run_start[2] < 0
  /\ ret.op = "get_rng_state" /\ ret.kind = "value"
  /\ run_seed' = [run_seed EXCEPT ![2] = ret.val]
  /\ run_start' = [run_start EXCEPT ![2] = Len(run_log[1])]
  /\ UNCHANGED <<run, run_log, cfgvars, geovars, cplvars, callvars, mpivars>>

\* a new process takes over from the checkpoint: lb_particle_coupling is
\* default constructed again, the LB fluid is set up as before
restart ==
  /\ run = 1 /\ run_start[2] >= 0
  /\ run' = 2
  /\ lb_particle_coupling' = DefaultConfig
  /\ aborted' = FALSE
  /\ ret' = NoCall
  /\ prev' = NoCall
  /\ seeded' = FALSE
  /\ expected_rng' = 0
  /\ last_toggle' = "none"
  /\ warned' = FALSE
  /\ UNCHANGED <<this_node, lattice_switch, kT>>
  /\ UNCHANGED <<run_seed, run_start, run_log, geovars, cplvars, callvars, mpivars>>

(***************************************************************************)
(* Spec: the coupling configuration of one process and the calls on it.    *)
(***************************************************************************)
Init ==
  /\ ConfigInit
  /\ box_geo = Cuboid
  /\ query = NoQuery
  /\ CoupleIdle
  /\ CallIdle
  /\ RunIdle
  /\ MpiIdle

Next ==
  \/ lb_lbcoupling_activate
  \/ lb_lbcoupling_deactivate
  \/ \E gamma \in Gammas : lb_lbcoupling_set_gamma(gamma)
  \/ lb_lbcoupling_get_gamma
  \/ lb_lbcoupling_is_seed_required
  \/ lb_lbcoupling_get_rng_state
  \/ \E counter \in CounterValues : lb_lbcoupling_set_rng_state(counter)
  \/ lb_lbcoupling_propagate
  \/ \E s \in ActiveLB : set_lattice_switch(s)
  \/ \E temperature \in Temperatures : setup_lb(temperature)

Spec == Init /\ [][Next]_vars

(***************************************************************************)
(* SpecGeo: the geometry functions applied to positions in and around the  *)
(* box, on every rank.                                                     *)
(***************************************************************************)
InitGeo ==
  /\ ConfigInit
  /\ box_geo \in BoxGeometries
  /\ query \in Queries
  /\ CoupleIdle
  /\ CallIdle
  /\ RunIdle
  /\ MpiIdle

NextGeo ==
  \/ query_in_local_domain
  \/ query_in_local_halo
  \/ query_positions_in_halo

SpecGeo == InitGeo /\ [][NextGeo]_vars

(***************************************************************************)
(* SpecCall: one call of a kernel function on this_node, for every         *)
(* configuration and state of the fluid.                                   *)
(***************************************************************************)
InitCall ==
  /\ node_grid \in {1, NRanks}
  /\ this_node \in 0 .. (node_grid - 1)
  /\ lattice_switch = "WALBERLA_LB"
  /\ kT \in Temperatures
  /\ lb_particle_coupling \in
       [gamma : {0, 1}, couple_to_md : {TRUE},
        rng_counter_coupling : {NoCounter, Counter(0), Counter(CounterMod - 1)}]
  /\ aborted = FALSE
  /\ ret = NoCall
  /\ prev = NoCall
  /\ seeded = lb_particle_coupling.rng_counter_coupling.initialized
  /\ expected_rng = lb_particle_coupling.rng_counter_coupling.value
  /\ last_toggle = "none"
  /\ warned = FALSE
  /\ box_geo \in BoxGeometries
  /\ query = NoQuery
  /\ time_step \in {1, 2}
  /\ call \in KernelCalls
  /\ node_grid = 1 => call.op = "kernel"
  /\ couple_virtual \in IF call.op = "kernel" THEN BOOLEAN ELSE {FALSE}
  /\ particles = IF call.op = "is_ghost_for_local_particle"
                   THEN [r \in Ranks |->
                           LocalParticles(r, BookParticle(call.pos))]
                   ELSE NoParticles
  /\ call.op = "is_ghost_for_local_particle" =>
       \E i \in 1 .. Len(particles[this_node]) :
         particles[this_node][i] = call.p
  /\ fluid = NoParticles
  /\ force_adds = NoParticles
  /\ pass = [r \in Ranks |-> "idle"]
  /\ fluid_u \in {0, 1}
  /\ RunIdle
  /\ Replicated

NextCall ==
  \/ call_lb_drag_force
  \/ call_get_noise_term
  \/ call_add_swimmer_force
  \/ call_add_md_force
  \/ call_is_ghost_for_local_particle
  \/ call_kernel

SpecCall == InitCall /\ [][NextCall]_vars

(***************************************************************************)
(* SpecRun: a thermalized or athermal run of MaxSteps integration steps    *)
(* and its restart from a checkpoint.                                      *)
(***************************************************************************)
InitRun ==
  /\ this_node = 0
  /\ lattice_switch = "WALBERLA_LB"
  /\ kT \in Temperatures
  /\ lb_particle_coupling = DefaultConfig
  /\ aborted = FALSE
  /\ ret = NoCall
  /\ prev = NoCall
  /\ seeded = FALSE
  /\ expected_rng = 0
  /\ last_toggle = "none"
  /\ warned = FALSE
  /\ box_geo = Cuboid
  /\ query = NoQuery
  /\ CoupleIdle
  /\ CallIdle
  /\ run = 1
  /\ run_seed \in {<<c, 0>> : c \in CounterValues}
  /\ run_start = <<0, 0 - 1>>
  /\ run_log = <<(<<>>), (<<>>)>>
  /\ MpiIdle

NextRun ==
  \/ run_set_rng_state
  \/ run_couple
  \/ run_propagate
  \/ run_get_rng_state
  \/ write_checkpoint
  \/ restart

SpecRun == InitRun /\ [][NextRun]_vars

(***************************************************************************)
(* SpecCouple: one coupling pass of every rank, in any order, over one     *)
(* particle and its ghost copies, with the configuration replicated.       *)
(***************************************************************************)
InitCouple ==
  /\ this_node = 0
  /\ lattice_switch = "WALBERLA_LB"
  /\ kT \in Temperatures
  /\ lb_particle_coupling \in
       [gamma : {1}, couple_to_md : BOOLEAN,
        rng_counter_coupling : {NoCounter, Counter(1)}]
  /\ aborted = FALSE
  /\ ret = NoCall
  /\ prev = NoCall
  /\ seeded = lb_particle_coupling.rng_counter_coupling.initialized
  /\ expected_rng = lb_particle_coupling.rng_counter_coupling.value
  /\ last_toggle = "none"
  /\ warned = FALSE
  /\ MpiIdle
  /\ box_geo = Cuboid
  /\ query = NoQuery
  /\ couple_virtual \in BOOLEAN
  /\ time_step = 2
  /\ \E p \in Particles : particles = [r \in Ranks |-> LocalParticles(r, p)]
  /\ fluid = NoParticles
  /\ force_adds = [r \in Ranks |-> [i \in 1 .. Len(particles[r]) |-> 0]]
  /\ pass = [r \in Ranks |-> "idle"]
  /\ fluid_u = 1
  /\ CallIdle
  /\ RunIdle

NextCouple == \E r \in Ranks : couple_particles(r)

SpecCouple == InitCouple /\ [][NextCouple]_vars


(***************************************************************************)
(* SpecBcast: the configuration of every process.  The process this_node   *)
(* changes its configuration; the configuration is broadcast; this_node    *)
(* runs its coupling pass.  A coupling pass begins only when the           *)
(* configuration was broadcast after the last change.                      *)
(***************************************************************************)
ChangeOps == {"activate", "deactivate", "set_gamma", "set_rng_state"}

\* a change was made after the last broadcast
ChangedSinceBcast == ret.op \in ChangeOps

InitBcast ==
  /\ this_node \in Ranks
  /\ lattice_switch = "WALBERLA_LB"
  /\ kT = 0
  /\ lb_particle_coupling \in
       [gamma : {0, 1}, couple_to_md : BOOLEAN,
        rng_counter_coupling : {NoCounter, Counter(0)}]
  /\ aborted = FALSE
  /\ ret = NoCall
  /\ prev = NoCall
  /\ seeded = lb_particle_coupling.rng_counter_coupling.initialized
  /\ expected_rng = lb_particle_coupling.rng_counter_coupling.value
  /\ last_toggle = "none"
  /\ warned = FALSE
  /\ box_geo = Cuboid
  /\ query = NoQuery
  /\ CoupleIdle
  /\ CallIdle
  /\ RunIdle
  /\ MpiIdle

bcast_couple_particles == ~ChangedSinceBcast /\ couple_particles(this_node)

NextBcast ==
  \/ lb_lbcoupling_activate
  \/ lb_lbcoupling_deactivate
  \/ \E gamma \in Gammas : lb_lbcoupling_set_gamma(gamma)
  \/ \E counter \in {0, CounterMod - 1} : lb_lbcoupling_set_rng_state(counter)
  \/ mpi_bcast_lb_particle_coupling
  \/ bcast_couple_particles
  \/ begin_step(this_node)

SpecBcast == InitBcast /\ [][NextBcast]_vars


(***************************************************************************)
(* SpecPass: the coupling pass of this_node over the copies of two         *)
(* particles, step after step; the coupling may be activated in between.   *)
(***************************************************************************)
PassPositions == {<<x, 0, 0>> : x \in BoxCoords}

\* how the first particle swims and where it points
PassSwimmers ==
  {<<NotSwimming, Director>>, <<Puller, Director>>, <<Puller, <<1, 0, 0>>>>}

FirstParticles ==
  {[id |-> 1, pos |-> pos, v |-> 2, force |-> ForceBefore(FALSE),
    ghost |-> FALSE, virtual |-> vt, swimming |-> sw[1], director |-> sw[2]] :
     pos \in PassPositions, vt \in BOOLEAN, sw \in PassSwimmers}

SecondParticles ==
  {[id |-> 2, pos |-> pos, v |-> 2, force |-> ForceBefore(FALSE),
    ghost |-> FALSE, virtual |-> FALSE, swimming |-> NotSwimming,
    director |-> Director] :
     pos \in PassPositions}

InitPass ==
  /\ this_node \in Ranks
  /\ lattice_switch \in ActiveLB
  /\ kT \in Temperatures
  /\ lb_particle_coupling \in
       [gamma : {1}, couple_to_md : BOOLEAN,
        rng_counter_coupling : {NoCounter, Counter(1)}]
  /\ aborted = FALSE
  /\ ret = NoCall
  /\ prev = NoCall
  /\ seeded = lb_particle_coupling.rng_counter_coupling.initialized
  /\ expected_rng = lb_particle_coupling.rng_counter_coupling.value
  /\ last_toggle = "none"
  /\ warned = FALSE
  /\ MpiIdle
  /\ box_geo = Cuboid
  /\ query = NoQuery
  /\ couple_virtual \in BOOLEAN
  /\ time_step = 2
  /\ \E p1 \in FirstParticles, p2 \in SecondParticles :
       particles = [r \in Ranks |->
                      LocalParticles(r, p1) \o LocalParticles(r, p2)]
  /\ fluid = NoParticles
  /\ force_adds = [r \in Ranks |-> [i \in 1 .. Len(particles[r]) |-> 0]]
  /\ pass = [r \in Ranks |-> "idle"]
  /\ fluid_u = 1
  /\ CallIdle
  /\ RunIdle

\* lb_lbcoupling_activate() after a pass that ran with the coupling
\* deactivated
pass_activate ==
  /\ ret = NoCall
  /\ pass[this_node] = "done"
  /\ ~lb_particle_coupling.couple_to_md
  /\ lb_lbcoupling_activate

NextPass ==
  \/ couple_particles(this_node)
  \/ begin_step(this_node)
  \/ pass_activate

SpecPass == InitPass /\ [][NextPass]_vars


(***************************************************************************)
(* Properties of the coupling configuration, checked under Spec.           *)
(***************************************************************************)
rng == lb_particle_coupling.rng_counter_coupling

\* C2: on a seeded counter lb_lbcoupling_propagate advances the counter by
\* exactly one (in the arithmetic of the counter's width) when the lattice
\* method is active and kT > 0, and leaves it unchanged when kT = 0 or no
\* lattice method is active; so after a seed c and propagate calls of which
\* m were thermalized the counter holds c + m.
C2_PropagateAdvancesCounter ==
  /\ [][(lb_lbcoupling_propagate /\ rng.initialized) =>
          /\ rng'.initialized
          /\ rng'.value = IF lattice_switch # "NONE" /\ kT > 0
                             THEN (rng.value + 1) % CounterMod
                             ELSE rng.value]_vars
  /\ [](seeded => rng.initialized /\ rng.value = expected_rng)

\* a thermalized propagate has advanced a seeded counter, here over the
\* end of its range
C2_Witness ==
  /\ ret.op = "propagate" /\ ret.kind = "ok"
  /\ ThermalizedStep /\ seeded
  /\ prev.op = "propagate"
  /\ rng.value = 0

\* C3: with the lattice method active set_rng_state(c) leaves the counter
\* Seeded with c whatever it was before, and a get_rng_state() that follows
\* it immediately returns c.
C3_SetGetRoundTrip ==
  /\ (ret.op = "set_rng_state" /\ ret.kind = "ok") =>
        (rng.initialized /\ rng.value = ret.arg)
  /\ (ret.op = "set_rng_state" /\ lattice_switch = "WALBERLA_LB") =>
        ret.kind = "ok"
  /\ (ret.op = "get_rng_state" /\ prev.op = "set_rng_state"
        /\ prev.kind = "ok") =>
        (ret.kind = "value" /\ ret.val = prev.arg)

\* get_rng_state has returned the largest counter value right after it
\* was set
C3_Witness ==
  /\ ret.op = "get_rng_state" /\ ret.kind = "value"
  /\ prev.op = "set_rng_state" /\ prev.kind = "ok"
  /\ prev.arg = CounterMod - 1
  /\ ret.val = CounterMod - 1

\* C4: is_seed_required() is true exactly when no set_rng_state has
\* succeeded and the lattice method is active.
C4_SeedRequired ==
  /\ IsSeedRequired <=> (~seeded /\ lattice_switch = "WALBERLA_LB")
  /\ (ret.op = "is_seed_required") =>
        (ret.kind = "value"
         /\ ret.bval = (~seeded /\ lattice_switch = "WALBERLA_LB"))

\* is_seed_required() has returned false without a lattice method, the
\* counter never seeded
C4_Witness ==
  /\ ret.op = "is_seed_required" /\ ~ret.bval
  /\ ~seeded /\ lattice_switch = "NONE"

\* C5: with the lattice method active and the counter not seeded,
\* get_rng_state() fails with a runtime error instead of returning a value
\* (and the counter stays unseeded).
C5_GetUnseededThrows ==
  (ret.op = "get_rng_state" /\ lattice_switch = "WALBERLA_LB" /\ ~seeded) =>
    (ret.kind = "error" /\ ~rng.initialized)

\* C6: without a lattice method get_rng_state() and set_rng_state(c) fail
\* with "No LB active", and the failed set_rng_state leaves the coupling
\* configuration as it was.
C6_NoLBActive ==
  [][/\ (lattice_switch = "NONE" /\ lb_lbcoupling_get_rng_state) =>
          (ret'.kind = "error" /\ ret'.msg = "No LB active"
           /\ lb_particle_coupling' = lb_particle_coupling)
     /\ \A c \in CounterValues :
          (lattice_switch = "NONE" /\ lb_lbcoupling_set_rng_state(c)) =>
            (ret'.kind = "error" /\ ret'.msg = "No LB active"
             /\ lb_particle_coupling' = lb_particle_coupling)]_vars

\* set_rng_state has failed without a lattice method and a counter seeded
\* earlier still holds another value than the argument
C6_Witness ==
  /\ ret.op = "set_rng_state" /\ ret.kind = "error"
  /\ ret.msg = "No LB active"
  /\ rng.initialized /\ rng.value # ret.arg
  /\ lb_particle_coupling.couple_to_md /\ lb_particle_coupling.gamma = 1

\* C7: activate() and deactivate() change only couple_to_md: the RNG
\* counter and gamma stay, and with them the answers of is_seed_required()
\* and get_rng_state().
C7_ToggleFrame ==
  [][(lb_lbcoupling_activate \/ lb_lbcoupling_deactivate) =>
       /\ rng' = rng
       /\ lb_particle_coupling'.gamma = lb_particle_coupling.gamma
       /\ lattice_switch' = lattice_switch
       /\ IsSeedRequired' = IsSeedRequired
       /\ seeded' = seeded]_vars

\* deactivate() has run on a seeded counter and a positive gamma
C7_Witness ==
  /\ ret.op = "deactivate"
  /\ rng.initialized /\ rng.value = 1
  /\ lb_particle_coupling.gamma = 1
  /\ ~lb_particle_coupling.couple_to_md

\* C8: couple_to_md is true iff the last of the activate() / deactivate()
\* calls was activate().
C8_LastToggleWins ==
  /\ last_toggle = "activate" => lb_particle_coupling.couple_to_md
  /\ last_toggle = "deactivate" => ~lb_particle_coupling.couple_to_md
  /\ last_toggle = "none" => ~lb_particle_coupling.couple_to_md
  /\ ret.op = "activate" => last_toggle = "activate"
  /\ ret.op = "deactivate" => last_toggle = "deactivate"

\* activate() has been called twice in a row
C8_Witness ==
  /\ prev.op = "activate" /\ ret.op = "activate"
  /\ lb_particle_coupling.couple_to_md

\* C9 as stated: deactivate() warns once if gamma > 0: it warns when
\* gamma > 0 and no warning was given before, does not warn again later,
\* does not warn when gamma <= 0, and always ends with couple_to_md false.
C9_WarnsOnce ==
  [][lb_lbcoupling_deactivate =>
       /\ ret'.warning <=> (lb_particle_coupling.gamma > 0 /\ ~warned)
       /\ ~lb_particle_coupling'.couple_to_md]_vars

\* C9 amended: deactivate() warns on every call made on rank 0 with a
\* lattice method active and gamma > 0, and on no other call; the call
\* always returns with couple_to_md false.
C9_WarnsEachTime ==
  (ret.op = "deactivate") =>
    /\ ret.kind = "ok"
    /\ ~lb_particle_coupling.couple_to_md
    /\ ret.warning <=> (/\ lb_particle_coupling.gamma > 0
                         /\ lattice_switch # "NONE"
                         /\ this_node = 0)

\* two deactivate() calls in a row have both warned
C9_Witness ==
  /\ prev.op = "deactivate" /\ prev.warning
  /\ ret.op = "deactivate" /\ ret.warning


(***************************************************************************)
(* Properties of the geometry functions, checked under SpecGeo.            *)
(***************************************************************************)
\* C10: in_local_domain(pos, halo) is true iff on every axis
\* lower - halo <= pos < upper + halo; in_local_halo(pos) is that test with
\* halo = agrid / 2; and every position of the box, the boundaries between
\* ranks included, is in the local domain (halo 0) of exactly one rank.
C10_LocalDomain ==
  query.done =>
    /\ (query.op = "in_local_domain") =>
         \A r \in Ranks :
           query.res[r] <=>
             \A a \in Axes :
               /\ my_left(r)[a] - query.halo <= query.pos[a]
               /\ query.pos[a] < my_right(r)[a] + query.halo
    /\ (query.op = "in_local_halo") =>
         \A r \in Ranks :
           query.res[r] <=>
             \A a \in Axes :
               /\ 2 * my_left(r)[a] - Agrid <= 2 * query.pos[a]
               /\ 2 * query.pos[a] < 2 * my_right(r)[a] + Agrid
    /\ (query.op = "in_local_domain" /\ query.halo = 0
         /\ query.pos \in BoxPositions) =>
         Cardinality({r \in Ranks : query.res[r]}) = 1

\* a position on the boundary between rank 0 and rank 1 is in the local
\* domain of rank 1 and of no other rank
C10_Witness ==
  /\ query.done /\ query.op = "in_local_domain" /\ query.halo = 0
  /\ query.pos \in BoxPositions
  /\ query.pos[1] = my_right(0)[1]
  /\ query.res[1] /\ ~query.res[0]

\* the candidate image of pos for the shift (i, j, k) of box lengths: in a
\* Lees-Edwards box the shear-direction coordinate moves by pos_offset
\* times the sign of the shift along the shear-plane normal
C11_Candidate(pos, i, j, k) ==
  LET le == box_geo.lees_edwards_bc
      shifted == <<pos[1] + i * BoxL, pos[2] + j * BoxL, pos[3] + k * BoxL>>
      sign == <<i, j, k>>[le.shear_plane_normal]
  IN  IF box_geo.type = "LEES_EDWARDS"
        THEN [shifted EXCEPT ![le.shear_direction] = @ + sign * le.pos_offset]
        ELSE shifted

C11_Keep(r, c) == IF in_local_halo(r, c) THEN <<c>> ELSE <<>>

C11_Row(r, pos, i, j) ==
  C11_Keep(r, C11_Candidate(pos, i, j, 0 - 1))
  \o C11_Keep(r, C11_Candidate(pos, i, j, 0))
  \o C11_Keep(r, C11_Candidate(pos, i, j, 1))

C11_Plane(r, pos, i) ==
  C11_Row(r, pos, i, 0 - 1) \o C11_Row(r, pos, i, 0) \o C11_Row(r, pos, i, 1)

\* the candidates that are in the local halo of rank r, i slowest, k fastest
C11_Expected(r, pos) ==
  C11_Plane(r, pos, 0 - 1) \o C11_Plane(r, pos, 0) \o C11_Plane(r, pos, 1)

\* C11: positions_in_halo(pos, box) is the list of those of the 27
\* candidates pos + (i Lx, j Ly, k Lz) that are in the local halo, in the
\* order i outermost, then j, then k, each running -1, 0, +1, where in a
\* Lees-Edwards box a candidate shifted by +L (-L) along the shear-plane
\* normal is first moved by +pos_offset (-pos_offset) along the shear
\* direction; it has at most 27 entries, each of them in the local halo.
C11_PositionsInHalo ==
  (query.done /\ query.op = "positions_in_halo") =>
    \A r \in Ranks :
      /\ query.images[r] = C11_Expected(r, query.pos)
      /\ Len(query.images[r]) <= 27
      /\ \A m \in 1 .. Len(query.images[r]) :
           in_local_halo(r, query.images[r][m])

\* in a Lees-Edwards box a rank has got several images of a position, in
\* the order of the loops, one of them shifted along the shear-plane
\* normal and moved by pos_offset along the shear direction
C11_Witness ==
  /\ query.done /\ query.op = "positions_in_halo"
  /\ box_geo.type = "LEES_EDWARDS"
  /\ \E r \in Ranks :
       /\ Len(query.images[r]) >= 3
       /\ \E m \in 1 .. Len(query.images[r]) :
            /\ query.images[r][m][2] = query.pos[2] + BoxL
            /\ query.images[r][m][1] =
                 query.pos[1] + box_geo.lees_edwards_bc.pos_offset
       /\ \E m \in 1 .. (Len(query.images[r]) - 1) :
            /\ query.images[r][m][3] < query.images[r][m + 1][3]
            /\ query.images[r][m][2] = query.images[r][m + 1][2]

(***************************************************************************)
(* Properties of the coupling pass, checked under SpecCouple.              *)
(***************************************************************************)
RECURSIVE SumSeq(_)
SumSeq(seq) == IF seq = <<>> THEN 0 ELSE Head(seq) + SumSeq(Tail(seq))

RECURSIVE SumRanks(_, _)
\* the sum of f[0] .. f[r]
SumRanks(f, r) == IF r < 0 THEN 0 ELSE f[r] + SumRanks(f, r - 1)

\* over all ranks and all copies: the executions of p.force() +=
TotalForceAdds ==
  SumRanks([r \in Ranks |-> SumSeq(force_adds[r])], NRanks - 1)

\* over all ranks and all copies: the force added by the pass
TotalForceAdded ==
  SumRanks([r \in Ranks |->
              SumSeq([i \in 1 .. Len(particles[r]) |->
                        particles[r][i].force
                        - ForceBefore(particles[r][i].ghost)])],
           NRanks - 1)

\* the real copy of the particle
RealCopy ==
  LET r == CHOOSE q \in Ranks :
             \E i \in 1 .. Len(particles[q]) : ~particles[q][i].ghost
      i == CHOOSE j \in 1 .. Len(particles[r]) : ~particles[r][j].ghost
  IN  particles[r][i]

GhostCopiesOn(r) ==
  {i \in 1 .. Len(particles[r]) : particles[r][i].ghost}

\* one evaluation of drag and noise for the particle
OneCouplingForce(p) ==
  lb_drag_force(p, p.pos, lb_particle_coupling_drift_vel_offset(p))
  + get_noise_term(p.id).value

\* every rank has completed its pass with the coupling active, and the
\* particle is one the kernel couples
PassesCoupled ==
  /\ \A r \in Ranks : pass[r] = "done"
  /\ lattice_switch = "WALBERLA_LB"
  /\ lb_particle_coupling.couple_to_md
  /\ ~RealCopy.virtual \/ couple_virtual

\* C1: after every rank has run couple_particles once with the coupling
\* active, the force added to all copies of a coupled particle on all ranks
\* together is one coupling force: p.force() += ran exactly once.
C1_SingleCounting ==
  PassesCoupled =>
    /\ TotalForceAdds = 1
    /\ TotalForceAdded = OneCouplingForce(RealCopy)

\* the passes are complete for a thermalized particle in a corner of the
\* box that has ghost copies on its own rank and on the other ranks
C1_Witness ==
  /\ PassesCoupled
  /\ kT > 0
  /\ \A r \in Ranks : GhostCopiesOn(r) # {}
  /\ OneCouplingForce(RealCopy) # 0
  /\ TotalForceAdded # 0

(***************************************************************************)
(* Properties of the kernel functions, checked under SpecCall.             *)
(***************************************************************************)
\* C12: lb_drag_force(p, pos, offset) is
\* -gamma * (p.v - (u(pos) * lattice_speed + offset)) with u the interpolated
\* fluid velocity; in a fluid at rest that is -gamma * (p.v - offset); the
\* value depends on neither kT nor the RNG counter.
C12_DragForce ==
  (call.done /\ call.op = "lb_drag_force") =>
    /\ call.value =
         (0 - lb_particle_coupling.gamma)
         * (call.p.v - (FluidVelocity(call.pos) * LatticeSpeed
                        + call.vel_offset))
    /\ (fluid_u = 0) =>
         call.value =
           (0 - lb_particle_coupling.gamma) * (call.p.v - call.vel_offset)

\* the drag force of a moving particle with a velocity offset has been
\* computed in a fluid at rest, thermalized, the counter not seeded
C12_Witness ==
  /\ call.done /\ call.op = "lb_drag_force"
  /\ fluid_u = 0 /\ kT > 0 /\ ~rng.initialized
  /\ lb_particle_coupling.gamma = 1
  /\ call.p.v = 2 /\ call.vel_offset = 1
  /\ call.value = 0 - 1

\* C13: when the coupling is not thermalized get_noise_term(pid) returns
\* the zero vector for every particle id and every state of the RNG
\* counter, the uninitialized one included: no error is raised and the
\* counter is neither needed nor changed.
C13_NoiseZeroUnthermalized ==
  /\ [](( call.done /\ call.op = "get_noise_term" /\ ~m_thermalized) =>
          (~call.error /\ call.value = 0))
  /\ [][call_get_noise_term =>
          lb_particle_coupling' = lb_particle_coupling]_vars

\* get_noise_term has returned zero, not thermalized, the counter
\* uninitialized
C13_Witness ==
  /\ call.done /\ call.op = "get_noise_term"
  /\ kT = 0 /\ ~rng.initialized
  /\ ~call.error /\ call.value = 0

\* C14: when the coupling is thermalized and the RNG counter is
\* uninitialized get_noise_term(pid) fails with the error of an
\* uninitialized counter for every pid, returns no noise value, and the
\* counter stays uninitialized.
C14_NoiseUninitializedThrows ==
  (call.done /\ call.op = "get_noise_term" /\ m_thermalized
     /\ ~rng.initialized) =>
    (call.error /\ call.value = 0 /\ ~seeded)

\* get_noise_term has failed, thermalized, for the second particle id
C14_Witness ==
  /\ call.done /\ call.op = "get_noise_term" /\ call.pid = 2
  /\ kT > 0 /\ ~rng.initialized
  /\ call.error

\* the source position of the swimmer force of p
C17_Source(p) ==
  <<p.pos[1], p.pos[2],
    p.pos[3] + p.swimming.push_pull * p.swimming.dipole_length>>

\* the periodic images of pos
C17_Images(pos) ==
  {C11_Candidate(pos, i, j, k) : i \in {0 - 1, 0, 1}, j \in {0 - 1, 0, 1},
                                  k \in {0 - 1, 0, 1}}

\* the deposits of the fluid fl at pos
C17_DepositsAt(fl, pos) == SelectSeq(fl, LAMBDA d : d.pos = pos)

RECURSIVE C18_SumAt(_, _)
C18_SumAt(deposits, pos) ==
  IF deposits = <<>>
    THEN 0
    ELSE (IF Head(deposits).pos = pos
            THEN (0 - (time_step \div LatticeSpeed)) * Head(deposits).force
            ELSE 0)
         + C18_SumAt(Tail(deposits), pos)

\* C18: add_md_force(pos, force, time_step) adds
\* delta_j = -(time_step / lattice_speed) * force to the force density at
\* pos and never overwrites: after any sequence of calls the force density
\* at a cell is the sum of the delta_j deposited there, whatever the order
\* of the calls, and add_md_force(pos, f) followed by add_md_force(pos, -f)
\* leaves the force density at pos as it was.
C18_AddMdForce ==
  (call.op = "add_md_force") =>
    /\ \A pos \in DepositPositions :
         ForceDensity(call.fluid, pos) = C18_SumAt(call.applied, pos)
    /\ (/\ Len(call.applied) = 2
        /\ call.applied[1].pos = call.applied[2].pos
        /\ call.applied[1].force = 0 - call.applied[2].force) =>
         \A pos \in DepositPositions : ForceDensity(call.fluid, pos) = 0

\* two different forces have been deposited at the same cell
C18_Witness ==
  /\ call.done /\ call.op = "add_md_force"
  /\ Len(call.applied) = 2
  /\ call.applied[1].pos = call.applied[2].pos
  /\ call.applied[1].force = 1 /\ call.applied[2].force = 2
  /\ ForceDensity(call.fluid, call.applied[1].pos) = 0 - (3 * time_step)

(***************************************************************************)
(* Properties of the kernel within the coupling pass, checked under        *)
(* SpecCouple.                                                             *)
(***************************************************************************)
\* rank r has completed its pass with the coupling active
C19_PassActive(r) ==
  /\ pass[r] = "done"
  /\ lattice_switch = "WALBERLA_LB"
  /\ lb_particle_coupling.couple_to_md

\* the copies on rank r that the kernel couples: a real particle, or the
\* first ghost of a particle the rank does not hold; virtual ones only
\* with couple_virtual
C19_Coupled(r) ==
  LET parts == particles[r] IN
  {i \in 1 .. Len(parts) :
     /\ ~parts[i].virtual \/ couple_virtual
     /\ parts[i].ghost =>
          /\ ~\E j \in 1 .. Len(parts) :
                parts[j].id = parts[i].id /\ ~parts[j].ghost
          /\ ~\E j \in 1 .. (i - 1) :
                parts[j].id = parts[i].id /\ parts[j].ghost}

\* the deposits on rank r at the periodic images of pos
C19_DepositsAtImages(r, pos) ==
  SelectSeq(fluid[r], LAMBDA d : d.pos \in C17_Images(pos))

\* C19 as stated: the kernel deposits the coupling force only at images of
\* p.pos inside the local domain of the rank, none at an image that is in
\* the local halo but outside the local domain.
C19_DepositsInDomainOnly ==
  \A r \in Ranks :
    C19_PassActive(r) =>
      \A i \in C19_Coupled(r) :
        LET deposits == C19_DepositsAtImages(r, particles[r][i].pos)
        IN  \A n \in 1 .. Len(deposits) :
              in_local_domain(r, deposits[n].pos, 0)

\* C19 amended: the kernel deposits the coupling force once at every
\* periodic image of p.pos in the local halo of the rank, inside the local
\* domain or not, and at no other image; every deposit is the same
\* coupling force.
C19_DepositsInHalo ==
  \A r \in Ranks :
    C19_PassActive(r) =>
      \A i \in C19_Coupled(r) :
        LET q == particles[r][i]
            deposits == C19_DepositsAtImages(r, q.pos)
            delta_j == (0 - (time_step \div LatticeSpeed))
                       * OneCouplingForce(q)
        IN  /\ \A n \in 1 .. Len(deposits) :
                 /\ in_local_halo(r, deposits[n].pos)
                 /\ deposits[n].delta_j = delta_j
            /\ \A pos \in C17_Images(q.pos) :
                 Len(C17_DepositsAt(fluid[r], pos)) =
                   IF in_local_halo(r, pos) THEN 1 ELSE 0

\* a rank has deposited a nonzero coupling force at an image in its halo
\* outside its local domain, and at an image inside its local domain
C19_Witness ==
  \E r \in Ranks :
    /\ C19_PassActive(r)
    /\ \E i \in C19_Coupled(r) :
         LET deposits == C19_DepositsAtImages(r, particles[r][i].pos)
         IN  /\ \E n \in 1 .. Len(deposits) :
                  /\ ~in_local_domain(r, deposits[n].pos, 0)
                  /\ deposits[n].delta_j # 0
             /\ \E n \in 1 .. Len(deposits) :
                  in_local_domain(r, deposits[n].pos, 0)

\* the images of the copy q on rank r that are in the local domain
C20_ImagesInDomain(r, q) ==
  {pos \in C17_Images(q.pos) : in_local_domain(r, pos, 0)}

\* C20: the kernel only adds to p.force (force after = force before +
\* coupling force), once for each image of p.pos in the local domain of
\* the rank; on a rank where the images of a coupled copy are in the halo
\* only, the force of the copy stays as it was although the force is put
\* into the fluid; a copy that is not coupled keeps its force.
C20_ForceAddedInDomainOnly ==
  \A r \in Ranks :
    (pass[r] = "done") =>
      \A i \in 1 .. Len(particles[r]) :
        LET q == particles[r][i]
            coupled == C19_PassActive(r) /\ i \in C19_Coupled(r)
            n == IF coupled
                   THEN Cardinality(C20_ImagesInDomain(r, q))
                   ELSE 0
        IN  /\ force_adds[r][i] = n
            /\ q.force = ForceBefore(q.ghost) + n * OneCouplingForce(q)
            /\ (/\ coupled
                /\ n = 0
                /\ \E pos \in C17_Images(q.pos) : in_local_halo(r, pos)) =>
                 /\ q.force = ForceBefore(q.ghost)
                 /\ C19_DepositsAtImages(r, q.pos) # <<>>

\* the rank of the real particle has added a nonzero coupling force to
\* the force the particle had, and another rank has coupled a ghost,
\* deposited into the fluid and left the force of the ghost alone
C20_Witness ==
  /\ \E r \in Ranks :
       /\ C19_PassActive(r)
       /\ \E i \in C19_Coupled(r) :
            /\ ~particles[r][i].ghost
            /\ OneCouplingForce(particles[r][i]) # 0
            /\ particles[r][i].force =
                 ForceBefore(FALSE) + OneCouplingForce(particles[r][i])
  /\ \E r \in Ranks :
       /\ C19_PassActive(r)
       /\ \E i \in C19_Coupled(r) :
            /\ particles[r][i].ghost
            /\ particles[r][i].force = ForceBefore(TRUE)
            /\ \E n \in 1 .. Len(fluid[r]) : fluid[r][n].delta_j # 0

C16_StepCounter ==
  /\ []((kT > 0) =>
          \A r \in 1 .. 2 : \A n \in 1 .. Len(run_log[r]) :
            run_log[r][n].counter = (run_seed[r] + (n - 1)) % CounterMod)
  /\ [][run_couple =>
          lb_particle_coupling'.rng_counter_coupling =
            lb_particle_coupling.rng_counter_coupling]_vars

\* a thermalized run seeded with the largest counter value has made all
\* its steps
C16_Witness ==
  /\ kT > 0
  /\ run = 1
  /\ run_seed[1] = CounterMod - 1
  /\ Len(run_log[1]) = MaxSteps
  /\ run_log[1][1].counter = CounterMod - 1
  /\ run_log[1][2].counter = 0


C22_SeveralCopies(r) == Len(particles[r]) > 1

C23_Called ==
  call.op = "is_ghost_for_local_particle" /\ call.done

\* this_node holds the real particle with the id of p
C23_HoldsReal(p) ==
  \E i \in 1 .. Len(particles[this_node]) :
    particles[this_node][i].id = p.id /\ ~particles[this_node][i].ghost

\* C23 as stated: is_ghost_for_local_particle(p) is true when the copy the
\* rank holds for the id of p is a ghost, and false when the rank holds the
\* real particle.
C23_TrueWhenLocalIsGhost ==
  C23_Called => (call.bval <=> ~C23_HoldsReal(call.p))

\* C23 amended: is_ghost_for_local_particle(p) is true when the rank holds
\* the real particle with the id of p, and false when the rank holds ghosts
\* of it only; a ghost whose real particle is on the rank is therefore not
\* coupled, a ghost of a particle the rank does not hold is, and so is
\* every real particle.
C23_TrueWhenLocalIsReal ==
  C23_Called =>
    /\ call.bval <=> C23_HoldsReal(call.p)
    /\ (call.p.ghost /\ C23_HoldsReal(call.p)) => ~call.coupled
    /\ (call.p.ghost /\ ~C23_HoldsReal(call.p)) => call.coupled
    /\ ~call.p.ghost => call.coupled

\* the function was called for a ghost on the rank of its real particle
C23_Witness ==
  /\ C23_Called
  /\ call.p.ghost /\ C23_HoldsReal(call.p)
  /\ call.bval /\ ~call.coupled


(***************************************************************************)
(* Properties of a pass that ends with an error, checked under SpecPass.   *)
(***************************************************************************)
\* the force densities the fluid of this_node has received in this pass
C24_Deposited == fluid[this_node] # <<>>

\* C24: when couple_particles has ended with the error of the uninitialized
\* RNG counter, the call has changed no force of a particle and has put no
\* force density into the fluid.
C24_NoPartialApplication ==
  (pass[this_node] = "error") =>
    /\ ~C24_Deposited
    /\ \A i \in 1 .. Len(particles[this_node]) :
         /\ particles[this_node][i].force =
              ForceBefore(particles[this_node][i].ghost)
         /\ force_adds[this_node][i] = 0


(***************************************************************************)
(* Properties of the pass for a copy without an image in the halo, checked *)
(* under SpecCouple.                                                       *)
(***************************************************************************)
\* the copies rank r couples that have no periodic image in its halo
C25_CoupledOutsideHalo(r) ==
  {i \in C19_Coupled(r) :
     \A pos \in C17_Images(particles[r][i].pos) : ~in_local_halo(r, pos)}

C26_Active ==
  lattice_switch = "WALBERLA_LB" /\ lb_particle_coupling.couple_to_md

\* this_node holds a copy the kernel couples that has an image in the halo
C26_SomethingToCouple ==
  \E i \in C19_Coupled(this_node) :
    \E pos \in C17_Images(particles[this_node][i].pos) :
      in_local_halo(this_node, pos)

\* C26: a couple_particles call with the coupling deactivated or without
\* an active lattice method changes no particle, no force density of the
\* fluid and no field of the configuration, whatever the particles are; a
\* call after activate(), with LB active, couples again: it deposits into
\* the fluid or ends with the error of the missing seed.
C26_NoOpWhenInactive ==
  /\ [][(couple_particles(this_node) /\ ~C26_Active) =>
          /\ particles' = particles
          /\ fluid' = fluid
          /\ force_adds' = force_adds
          /\ pass'[this_node] = "done"
          /\ lb_particle_coupling' = lb_particle_coupling
          /\ lattice_switch' = lattice_switch /\ kT' = kT]_vars
  /\ [][(couple_particles(this_node) /\ ret.op = "activate" /\ C26_Active
           /\ C26_SomethingToCouple) =>
          \/ pass'[this_node] = "error"
          \/ /\ pass'[this_node] = "done"
             /\ fluid'[this_node] # <<>>]_vars

\* the pass ran deactivated, the coupling was activated, and the pass of
\* the next step has added a coupling force to a particle and to the fluid
C26_Witness ==
  /\ ret.op = "activate"
  /\ pass[this_node] = "done"
  /\ fluid[this_node] # <<>>
  /\ \E i \in 1 .. Len(particles[this_node]) :
       /\ force_adds[this_node][i] = 1
       /\ particles[this_node][i].force #
            ForceBefore(particles[this_node][i].ghost)


(***************************************************************************)
(* Properties of one kernel call, checked under SpecCall.                  *)
(***************************************************************************)
\* kernel(p) has been called on this_node
C27_Called == call.op = "kernel" /\ call.done

\* the periodic images of the position of p in the local halo, in the
\* order of the enumeration
C27_InHalo(p) == C11_Expected(this_node, p.pos)

\* drag and noise evaluated once, at the first image in the halo
C27_ForceAtFirst(p) ==
  lb_drag_force(p, C27_InHalo(p)[1], lb_particle_coupling_drift_vel_offset(p))
  + get_noise_term(p.id).value

\* the number of images in the halo that are in the local domain
C27_InDomain(p) ==
  Cardinality({k \in 1 .. Len(C27_InHalo(p)) :
                 in_local_domain(this_node, C27_InHalo(p)[k], 0)})

\* what kernel does to a particle it couples: the error of the missing
\* seed and nothing else, or the coupling force at every image and the
\* swimmer force
C27_CoupledAs(p) ==
  IF C27_InHalo(p) = <<>>
    THEN /\ ~call.error
         /\ call.p_after = call.p
         /\ call.fluid = add_swimmer_force(this_node, <<>>, p, time_step)
    ELSE IF get_noise_term(p.id).error
           THEN /\ call.error
                /\ call.p_after = call.p
                /\ call.fluid = <<>>
           ELSE /\ ~call.error
                /\ call.p_after =
                     [call.p EXCEPT
                        !.force = @ + C27_InDomain(p) * C27_ForceAtFirst(p)]
                /\ call.fluid =
                     add_swimmer_force(
                       this_node,
                       DepositAll(<<>>, C27_InHalo(p), C27_ForceAtFirst(p),
                                  time_step),
                       p, time_step)

\* C27: kernel(p) for a virtual particle, virtual coupling disabled, leaves
\* the force of p alone, deposits nothing in the fluid, neither coupling
\* force nor swimmer force, and requests no noise (no error without a
\* seed); with virtual coupling enabled the outcome is the one for the
\* same particle not being virtual.
C27_VirtualParticle ==
  (C27_Called /\ call.p.virtual) =>
    IF couple_virtual
      THEN C27_CoupledAs([call.p EXCEPT !.virtual = FALSE])
      ELSE /\ ~call.error
           /\ call.p_after = call.p
           /\ call.value = 0
           /\ call.fluid = <<>>

\* kernel was called with virtual coupling disabled for a virtual swimmer
\* with an image in the halo, the fluid thermalized and without a seed
C27_Witness ==
  /\ C27_Called
  /\ call.p.virtual /\ ~couple_virtual
  /\ call.p.swimming.swimming
  /\ C27_InHalo(call.p) # <<>>
  /\ m_thermalized
  /\ ~lb_particle_coupling.rng_counter_coupling.initialized
  /\ call.fluid = <<>>

\* the particle is one kernel couples and it has an image in the halo
C28_Coupled ==
  /\ C27_Called
  /\ ~call.p.virtual \/ couple_virtual
  /\ C27_InHalo(call.p) # <<>>
  /\ ~call.error

\* C28: kernel(p) evaluates drag and noise once, at the first periodic
\* image of p.pos in the local halo in the order of positions_in_halo,
\* however many images are in the halo; this one coupling force is what is
\* added to p.force and what every image in the halo receives in the fluid.
C28_ForceAtFirstImage ==
  C28_Coupled =>
    LET images == C27_InHalo(call.p)
        force == C27_ForceAtFirst(call.p)
    IN  /\ call.p_after.force = call.p.force + call.value * force
        /\ Len(call.fluid) >= Len(images)
        /\ \A k \in 1 .. Len(images) :
             call.fluid[k] =
               [pos |-> images[k],
                delta_j |-> (0 - (time_step \div LatticeSpeed)) * force]

\* several images are in the halo, the first is not the position of the
\* particle, and drag and noise at the position of the particle would be
\* another force
C28_Witness ==
  /\ C28_Coupled
  /\ Len(C27_InHalo(call.p)) > 1
  /\ C27_InHalo(call.p)[1] # call.p.pos
  /\ call.value = 1
  /\ C27_ForceAtFirst(call.p) # 0
  /\ C27_ForceAtFirst(call.p) #
       lb_drag_force(call.p, call.p.pos,
                     lb_particle_coupling_drift_vel_offset(call.p))
       + get_noise_term(call.p.id).value

\* C29: one kernel(p) call adds the coupling force to p.force at most
\* once: at most one of the images in the halo is in the local domain,
\* on a rank that holds a part of the box and on a single rank that holds
\* the whole box, in a cuboid and in a Lees-Edwards box.
C29_AtMostOnce ==
  C27_Called =>
    /\ C27_InDomain(call.p) <= 1
    /\ call.value <= 1
    /\ call.value = 1 =>
         call.p_after.force = call.p.force + C27_ForceAtFirst(call.p)
    /\ call.value = 0 => call.p_after.force = call.p.force

\* a single rank holds the box, eight images of a particle in the corner
\* are in its halo, and the coupling force was added once
C29_Witness ==
  /\ C27_Called
  /\ node_grid = 1
  /\ Len(C27_InHalo(call.p)) = 8
  /\ call.value = 1
  /\ call.p_after.force # call.p.force


(***************************************************************************)
(* Properties of the life of the RNG counter, checked under Spec.          *)
(***************************************************************************)
\* a step of lb_lbcoupling_propagate() on an empty counter with LB active
\* and kT > 0
C30_PropagateUnseeded ==
  /\ ret'.op = "propagate"
  /\ ThermalizedStep
  /\ ~rng.initialized

\* C30: the counter becomes initialized only by a set_rng_state call that
\* succeeds; once initialized it stays initialized; and propagate() with
\* LB active and kT > 0 on an empty counter returns without a counter
\* value and without an increment, is_seed_required() being true after it.
C30_SeededOnlyBySetRngState ==
  /\ [][(~rng.initialized /\ rng'.initialized) =>
          (ret'.op = "set_rng_state" /\ ret'.kind = "ok")]_vars
  /\ [][rng.initialized => rng'.initialized]_vars
  /\ [][C30_PropagateUnseeded =>
          /\ rng' = rng
          /\ ret'.kind = "ok" /\ ~aborted'
          /\ IsSeedRequired']_vars

=============================================================================
